---------------------------- MODULE Spec2Model ----------------------------
(***************************************************************************)
(* A model of the Atari 2600 emulator core: the TIA position Counter, the  *)
(* TIA's scanline timing, the RIOT, the 6507's cycle accounting, the bus   *)
(* decoder and the scheduler loop of main().                               *)
(*                                                                         *)
(* Each component has its own specification over its own variables; the    *)
(* variables a specification does not use keep their initial value.        *)
(***************************************************************************)
EXTENDS Integers, Naturals, Sequences, FiniteSets, TLC

VARIABLES
    ctr,        \* a stand-alone tia::counter::Counter
    ctr_fresh,  \* TRUE while only clock() has been called on ctr since new_counter
    ctr_calls,  \* number of clock() calls on ctr while ctr_fresh
    ctr_last,   \* the last Counter call: its name, return value, value() before it
    hm,         \* bookkeeping of the calls since the last start_hmove
    tia,        \* the TIA's timing state (struct TIA without the graphics objects)
    tia_ticks,  \* number of TIA::clock() calls since new_tia
    tia_eof,    \* StepResult.end_of_frame of the last TIA::clock()
    riot,       \* struct RIOT; ram holds the non-zero cells of the RAM array
    rom,        \* AtariBus.rom: its length and the cells the CPU has overwritten
    prog,       \* "running", or how the process ended: "panicked", "exited"
    acc,        \* the last bus access of the CPU and what the bus did with it
    bus_ops,    \* number of bus accesses made
    cpu,        \* struct CPU6507: sp and the current_* fields
    scan_c,     \* c, the loop variable of main()'s scanline closure
    overflow_checks, \* the build: TRUE with overflow checks (debug), FALSE without
    tick,       \* the device calls of the last loop iteration, in call order
    gap,        \* TIA clocks since the last RIOT clock and the last CPU clock
    ws,         \* the WSYNC halt in progress: counter value at the write, TIA clocks since
    ws_done,    \* the WSYNC halt that the last iteration ended
    vs,         \* the last VSYNC reset less than a scanline ago, TIA clocks since
    ins,        \* the instruction in progress: cycles charged, device clocks since its fetch
    done,       \* the instruction that the last iteration's fetch completed
    tm,         \* the last timer write: byte, interval, RIOT clocks since
    rd,         \* the last RIOT read or switch operation and the RIOT before it
    stk,        \* the last stack call, the unmatched pushes before it, its value
    sr,         \* the status flags c, z, i, d, b, u, v, s of struct CPU6507
    br,         \* the branch instruction in progress: its inputs, the clock() calls so far
    alu,        \* register a of struct CPU6507, and the last adc: its inputs and its carry
    px,         \* the graphics state at one pixel and the colour get_pixel_color gave it
    pfs,        \* struct Playfield
    line,       \* Playfield::get_color() at each visible dot of the scanline so far
    obj,        \* a stand-alone Ball, Missile or Player
    gfx,        \* the sprite fields of struct TIA: sizes, positions, motion, graphics
    beam,       \* what the last TIA call did: the write, the pixel drawn, reports since VSYNC
    scan,       \* the draw of obj in progress: graphic-circuit ticks since it was armed
    fl          \* main's frame loop: the loop about to test its condition

ctr_vars == <<ctr, ctr_fresh, ctr_calls, ctr_last, hm>>
tia_vars == <<tia, tia_ticks, tia_eof>>
mem_vars == <<riot, rom>>
bus_vars == <<acc, bus_ops>>
sched_vars == <<cpu, scan_c, overflow_checks, tick, gap, ws, ws_done, vs, ins, done>>
riot_obs == <<tm, rd>>
cpu_obs == <<stk, sr, br, alu>>
gfx_obs == <<px, pfs, line>>
tia_obs == <<obj, gfx, beam, scan, fl>>
vars == <<ctr_vars, tia_vars, mem_vars, prog, bus_vars, sched_vars, riot_obs, cpu_obs,
         gfx_obs, tia_obs>>

(***************************************************************************)
(* Bounds of the exploration.                                              *)
(***************************************************************************)
\* clock() calls followed on a fresh counter (two periods of the longest counter)
MaxFreshCalls == 460
\* apply_hmove() calls followed after one start_hmove()
MaxApplyCalls == 18
\* apply_hmove() calls followed after a start_hmove while the HM offset is
\* rewritten: the 256 that wrap ticks_added and a few more
MaxMotionCalls == 260
\* apply_hmove() calls followed after the motion has stopped
MaxIdleCalls == 3
\* a further start_hmove is followed while the counter's internal value is
\* below this
MaxRestartValue == 16
\* TIA::clock() calls followed from new_tia without a VSYNC write (a frame of
\* 262 * 228 ticks and two more scanlines)
MaxFrameTicks == 60192
\* RIOT clocks followed after a timer write
MaxTimerClocks == 1030
\* bus accesses followed from construction
MaxBusOps == 2
\* TIA clocks the scheduler is followed for from construction: a scanline of
\* 228 and the start of the next
MaxSchedTicks == 240
\* TIA clocks the scheduler is followed for under programs of every opcode
\* class
MaxProgramTicks == 60

U8 == 256

(***************************************************************************)
(* tia/counter.rs                                                          *)
(***************************************************************************)
\* The (period, reset_value) pairs the repository constructs counters with:
\* the sprites' (40, 39), the tests' (40, 0) and the HSYNC counter's 57.
CounterShapes == { <<40, 0>>, <<40, 39>>, <<57, 0>> }

\* The bytes handed to start_hmove/apply_hmove: every high nibble, and low
\* nibbles that must be ignored.
HMBytes == { 16 * n : n \in 0..15 } \cup { 15, 143, 255 }

\* The internal values handed to reset_to(): Missile::reset_to_player passes a
\* player counter's internal value (0..159); these sit at the start, inside and
\* at the end of a position.
ResetToValues == { 0, 2, 4, 7, 77, 159 }

\* hmove_value() reading the nibble as unsigned
hmove_value_unsigned(v) == v \div 16

hmove_value(v) ==
    LET nibble == v \div 16
    IN  IF nibble < 8 THEN nibble + 8 ELSE nibble - 8

new_counter(period, reset_value) ==
    [ period            |-> period,
      reset_value       |-> reset_value,
      internal_value    |-> 0,
      last_value        |-> 0,
      ticks_added       |-> 0,
      movement_required |-> FALSE ]

Counter_value(c) == c.internal_value \div 4

Counter_reset(c) == [c EXCEPT !.internal_value = (c.reset_value * 4) % U8]

Counter_reset_to(c, v) == [c EXCEPT !.internal_value = v]

\* clock() with the position latch never refreshed
Counter_clock_no_wrap(c) ==
    LET iv == (c.internal_value + 1) % U8
        nv == iv \div 4
    IN  IF c.last_value # nv
        THEN [ctr |-> [c EXCEPT !.internal_value = iv, !.last_value = nv], clocked |-> TRUE]
        ELSE [ctr |-> [c EXCEPT !.internal_value = iv], clocked |-> FALSE]

\* clock(): the new counter and the returned flag
Counter_clock(c) ==
    LET iv == ((c.internal_value + 1) % U8) % ((c.period * 4) % U8)
        nv == iv \div 4
    IN  IF c.last_value # nv
        THEN [ctr |-> [c EXCEPT !.internal_value = iv, !.last_value = nv], clocked |-> TRUE]
        ELSE [ctr |-> [c EXCEPT !.internal_value = iv], clocked |-> FALSE]

Counter_start_hmove(c, hm_val) ==
    [c EXCEPT !.ticks_added = 0,
              !.movement_required = (hmove_value(hm_val) # 0)]

\* apply_hmove(): the new counter and the returned pair
Counter_apply_hmove(c, hm_val) ==
    IF ~c.movement_required
    THEN [ctr |-> c, moved |-> FALSE, clocked |-> FALSE]
    ELSE LET r  == Counter_clock(c)
             ta == (c.ticks_added + 1) % U8
         IN  [ctr |-> [r.ctr EXCEPT !.ticks_added = ta,
                                    !.movement_required = (ta # hmove_value(hm_val))],
              moved |-> TRUE, clocked |-> r.clocked]

(***************************************************************************)
(* The stand-alone counter and its callers' operations.                    *)
(***************************************************************************)
NoCall == [op |-> "none", moved |-> FALSE, clocked |-> FALSE, before |-> 0, adv |-> 0]

\* how far a call advanced the internal value, around the ring of 4 * period
Advance(old, new) == (new.internal_value - old.internal_value) % (4 * old.period)
NoHmove == [started |-> FALSE, b |-> 0, constant |-> TRUE, applied |-> 0]

InitCounterOf(shapes) ==
    /\ \E s \in shapes : ctr = new_counter(s[1], s[2])
    /\ ctr_fresh = TRUE
    /\ ctr_calls = 0
    /\ ctr_last = NoCall
    /\ hm = NoHmove

CtrClock ==
    /\ ctr_fresh => ctr_calls < MaxFreshCalls
    /\ LET r == Counter_clock(ctr)
       IN  /\ ctr' = r.ctr
           /\ ctr_last' = [op |-> "clock", moved |-> FALSE, clocked |-> r.clocked,
                           before |-> Counter_value(ctr), adv |-> Advance(ctr, r.ctr)]
    /\ ctr_calls' = IF ctr_fresh THEN ctr_calls + 1 ELSE 0
    /\ UNCHANGED <<ctr_fresh, hm, tia_vars, mem_vars, prog, bus_vars, sched_vars, riot_obs, cpu_obs, gfx_obs, tia_obs>>

CtrReset ==
    /\ ctr' = Counter_reset(ctr)
    /\ ctr_fresh' = FALSE
    /\ ctr_calls' = 0
    /\ ctr_last' = [NoCall EXCEPT !.op = "reset", !.before = Counter_value(ctr)]
    /\ UNCHANGED <<hm, tia_vars, mem_vars, prog, bus_vars, sched_vars, riot_obs, cpu_obs, gfx_obs, tia_obs>>

CtrResetTo ==
    /\ \E v \in ResetToValues : ctr' = Counter_reset_to(ctr, v)
    /\ ctr_fresh' = FALSE
    /\ ctr_calls' = 0
    /\ ctr_last' = [NoCall EXCEPT !.op = "reset_to", !.before = Counter_value(ctr)]
    /\ UNCHANGED <<hm, tia_vars, mem_vars, prog, bus_vars, sched_vars, riot_obs, cpu_obs, gfx_obs, tia_obs>>

\* The owner stores into the public internal_value field, as TIA::write does
\* for VSYNC (tia.rs line 314).
CtrOverwrite ==
    /\ ctr' = [ctr EXCEPT !.internal_value = 0]
    /\ ctr_fresh' = FALSE
    /\ ctr_calls' = 0
    /\ ctr_last' = [NoCall EXCEPT !.op = "overwrite", !.before = Counter_value(ctr)]
    /\ UNCHANGED <<hm, tia_vars, mem_vars, prog, bus_vars, sched_vars, riot_obs, cpu_obs, gfx_obs, tia_obs>>

CtrStartHmove ==
    /\ \E b \in HMBytes :
          /\ ctr' = Counter_start_hmove(ctr, b)
          /\ hm' = [started |-> TRUE, b |-> b, constant |-> TRUE, applied |-> 0]
    /\ ctr_last' = [NoCall EXCEPT !.op = "start_hmove", !.before = Counter_value(ctr)]
    /\ ctr_fresh' = FALSE
    /\ ctr_calls' = 0
    /\ UNCHANGED <<tia_vars, mem_vars, prog, bus_vars, sched_vars, riot_obs, cpu_obs, gfx_obs, tia_obs>>

CtrApplyHmove ==
    /\ hm.started
    /\ hm.applied < MaxApplyCalls
    /\ LET r == Counter_apply_hmove(ctr, hm.b)
       IN  /\ ctr' = r.ctr
           /\ ctr_last' = [op |-> "apply_hmove", moved |-> r.moved, clocked |-> r.clocked,
                           before |-> Counter_value(ctr), adv |-> Advance(ctr, r.ctr)]
    /\ hm' = [hm EXCEPT !.applied = @ + 1]
    /\ UNCHANGED <<ctr_fresh, ctr_calls, tia_vars, mem_vars, prog, bus_vars, sched_vars, riot_obs, cpu_obs, gfx_obs, tia_obs>>

(***************************************************************************)
(* Bit operations on bytes and addresses, as the code's & and | compute    *)
(* them.                                                                   *)
(***************************************************************************)
RECURSIVE BitAnd(_, _)
BitAnd(x, y) ==
    IF x = 0 \/ y = 0 THEN 0
    ELSE (IF x % 2 = 1 /\ y % 2 = 1 THEN 1 ELSE 0) + 2 * BitAnd(x \div 2, y \div 2)

RECURSIVE BitOr(_, _)
BitOr(x, y) ==
    IF x = 0 THEN y
    ELSE IF y = 0 THEN x
    ELSE (IF x % 2 = 1 \/ y % 2 = 1 THEN 1 ELSE 0) + 2 * BitOr(x \div 2, y \div 2)

(***************************************************************************)
(* tia.rs: the timing state of the TIA.  The graphics objects (colours,    *)
(* playfield, sprites, ball, frame buffer) take no part in the scanline    *)
(* and halt logic and are not fields of this record.                       *)
(***************************************************************************)
\* tia.rs constructs the HSYNC counter with its period only and never calls
\* reset() on it, so the reset value given here is never read.
new_tia ==
    [ scanline          |-> 0,
      ctr               |-> new_counter(57, 0),
      vsync             |-> FALSE,
      vblank            |-> FALSE,
      wsync             |-> FALSE,
      late_reset_hblank |-> 0 ]

\* TIA::cpu_halt() that never reports the halt
cpu_halt_ignored(t) == FALSE

cpu_halt(t) == t.wsync

in_hblank(t) == t.ctr.internal_value < (68 + t.late_reset_hblank) % U8

\* TIA::clock() ending the scanline on every position change
TIA_clock_every_position(t) ==
    LET r == Counter_clock(t.ctr)
        t1 == [t EXCEPT !.ctr = r.ctr]
    IN  IF r.clocked
        THEN LET sl == IF t1.scanline < 262 THEN t1.scanline + 1 ELSE t1.scanline
             IN  [tia |-> [t1 EXCEPT !.wsync = FALSE, !.scanline = sl],
                  end_of_frame |-> (sl = 3)]
        ELSE [tia |-> t1, end_of_frame |-> FALSE]

\* TIA::clock(): the new TIA and StepResult.end_of_frame
TIA_clock(t) ==
    LET r == Counter_clock(t.ctr)
        t1 == [t EXCEPT !.ctr = r.ctr]
    IN  IF r.clocked /\ Counter_value(t1.ctr) = 0
        THEN LET sl == IF t1.scanline < 262 THEN t1.scanline + 1 ELSE t1.scanline
             IN  [tia |-> [t1 EXCEPT !.wsync = FALSE, !.scanline = sl],
                  end_of_frame |-> (sl = 3)]
        ELSE [tia |-> t1, end_of_frame |-> FALSE]

\* TIA::clock(): the frame-buffer cell written, pixels[y][x]
TIA_clock_pixel(t) ==
    LET r == Counter_clock(t.ctr)
        visible_cycle    == Counter_value(r.ctr) >= 17 /\ Counter_value(r.ctr) <= 56
        visible_scanline == t.scanline >= 40 /\ t.scanline < 232
    IN  IF visible_scanline /\ visible_cycle
        THEN [drawn |-> TRUE, x |-> r.ctr.internal_value - 68, y |-> t.scanline - 40]
        ELSE [drawn |-> FALSE, x |-> 0, y |-> 0]

\* TIA::write(): the registers that touch the timing state
TIA_write(t, address, val) ==
    CASE address = 0 ->
            LET vsync_set == BitAnd(val, 2) # 0
            IN  IF vsync_set
                THEN [t EXCEPT !.vsync = TRUE, !.ctr.internal_value = 0, !.scanline = 0]
                ELSE [t EXCEPT !.vsync = FALSE]
      [] address = 1  -> [t EXCEPT !.vblank = (BitAnd(val, 2) # 0)]
      [] address = 2  -> [t EXCEPT !.wsync = TRUE]
      [] address = 3  -> t
      [] address = 42 -> [t EXCEPT !.late_reset_hblank = 8]
      [] OTHER        -> t

TIA_read(t, address) == 0

\* bit i of a byte: (v >> i) & 0x01
Bit(v, i) == (v \div 2^i) % 2

(***************************************************************************)
(* tia.rs: the colour of a pixel.  The objects' graphics state at the      *)
(* pixel is a record g: the four colour registers, whether each of P0, M0, *)
(* P1, M1 and BL covers the pixel, what the playfield's graphic circuit    *)
(* gives ("none", or the register it takes its colour from), and the       *)
(* playfield's priority flag.  An Option<u8> is [some, v].                 *)
(***************************************************************************)
None == [some |-> FALSE, v |-> 0]
Some(v) == [some |-> TRUE, v |-> v]
Option_or(a, b) == IF a.some THEN a ELSE b
Option_unwrap_or(a, default) == IF a.some THEN a.v ELSE default

get_p0_color(g) == IF g.p0 THEN Some(g.colup0) ELSE None
get_m0_color(g) == IF g.m0 THEN Some(g.colup0) ELSE None
get_p1_color(g) == IF g.p1 THEN Some(g.colup1) ELSE None
get_m1_color(g) == IF g.m1 THEN Some(g.colup1) ELSE None
Ball_get_color(g) == IF g.bl THEN Some(g.colupf) ELSE None
Playfield_get_color(g) ==
    CASE g.pf = "colupf" -> Some(g.colupf)
      [] g.pf = "colup0" -> Some(g.colup0)
      [] g.pf = "colup1" -> Some(g.colup1)
      [] OTHER           -> None

\* TIA::get_pixel_color with the missile 0 and player 1 candidates exchanged
get_pixel_color_p1_before_m0(g) ==
    IF ~g.priority
    THEN Option_unwrap_or(
            Option_or(Option_or(Option_or(Option_or(Option_or(
                get_p0_color(g), get_p1_color(g)), get_m0_color(g)), get_m1_color(g)),
                Playfield_get_color(g)), Ball_get_color(g)),
            g.colubk)
    ELSE Option_unwrap_or(
            Option_or(Option_or(Option_or(Option_or(Option_or(
                Playfield_get_color(g), Ball_get_color(g)), get_p0_color(g)),
                get_p1_color(g)), get_m0_color(g)), get_m1_color(g)),
            g.colubk)
get_pixel_color(g) ==
    IF ~g.priority
    THEN Option_unwrap_or(
            Option_or(Option_or(Option_or(Option_or(Option_or(
                get_p0_color(g), get_m0_color(g)), get_p1_color(g)), get_m1_color(g)),
                Playfield_get_color(g)), Ball_get_color(g)),
            g.colubk)
    ELSE Option_unwrap_or(
            Option_or(Option_or(Option_or(Option_or(Option_or(
                Playfield_get_color(g), Ball_get_color(g)), get_p0_color(g)),
                get_m0_color(g)), get_p1_color(g)), get_m1_color(g)),
            g.colubk)

\* the graphics state of new_tia: colours 0, no graphics, nothing enabled
new_graphics ==
    [colup0 |-> 0, colup1 |-> 0, colupf |-> 0, colubk |-> 0,
     p0 |-> FALSE, m0 |-> FALSE, p1 |-> FALSE, m1 |-> FALSE, bl |-> FALSE,
     pf |-> "none", priority |-> FALSE]
NoPixel == [g |-> new_graphics, drawn |-> FALSE, color |-> 0]

(***************************************************************************)
(* tia/playfield.rs.  pf holds the 20 playfield bits, pf[k] being          *)
(* self.pf[k - 1].                                                         *)
(***************************************************************************)
new_colors == [colup0 |-> 0, colup1 |-> 0, colupf |-> 0, colubk |-> 0]

new_playfield ==
    [ colors            |-> new_colors,
      ctr               |-> new_counter(40, 39),
      pf0               |-> 0,
      pf1               |-> 0,
      pf2               |-> 0,
      pf                |-> [k \in 1..20 |-> FALSE],
      horizontal_mirror |-> FALSE,
      score_mode        |-> FALSE,
      priority          |-> FALSE,
      graphic_bit_value |-> None ]

\* set_pf0() reading the low nibble of the byte
Playfield_set_pf0_low_nibble(p, val) ==
    [p EXCEPT !.pf0 = val,
              !.pf = [k \in 1..20 |-> IF k - 1 \in 0..3 THEN Bit(val, k - 1) # 0 ELSE @[k]]]
Playfield_set_pf0(p, val) ==
    [p EXCEPT !.pf0 = val,
              !.pf = [k \in 1..20 |-> IF k - 1 \in 0..3 THEN Bit(val, (k - 1) + 4) # 0 ELSE @[k]]]
Playfield_set_pf1(p, val) ==
    [p EXCEPT !.pf1 = val,
              !.pf = [k \in 1..20 |-> IF k - 1 \in 4..11 THEN Bit(val, 7 - (k - 1 - 4)) # 0
                                      ELSE @[k]]]
Playfield_set_pf2(p, val) ==
    [p EXCEPT !.pf2 = val,
              !.pf = [k \in 1..20 |-> IF k - 1 \in 12..19 THEN Bit(val, k - 1 - 12) # 0
                                      ELSE @[k]]]

Playfield_set_control(p, val) ==
    [p EXCEPT !.horizontal_mirror = BitAnd(val, 1) # 0,
              !.priority          = BitAnd(val, 4) # 0,
              !.score_mode        = BitAnd(val, 2) # 0 /\ ~(BitAnd(val, 4) # 0)]

\* tick_graphic_circuit() taking the right half from the same index as the left
Playfield_tick_never_mirrored(p) ==
    LET c    == Counter_value(p.ctr)
        pf_x == c % 20
    IN  IF c < 20
        THEN [p EXCEPT !.graphic_bit_value =
                IF p.pf[pf_x + 1]
                THEN Some(IF p.score_mode THEN p.colors.colup0 ELSE p.colors.colupf)
                ELSE None]
        ELSE [p EXCEPT !.graphic_bit_value =
                IF p.pf[pf_x + 1]
                THEN Some(IF p.score_mode THEN p.colors.colup1 ELSE p.colors.colupf)
                ELSE None]
Playfield_tick_graphic_circuit(p) ==
    LET c    == Counter_value(p.ctr)
        pf_x == c % 20
    IN  IF c < 20
        THEN [p EXCEPT !.graphic_bit_value =
                IF p.pf[pf_x + 1]
                THEN Some(IF p.score_mode THEN p.colors.colup0 ELSE p.colors.colupf)
                ELSE None]
        ELSE LET idx == IF p.horizontal_mirror THEN 20 - 1 - pf_x ELSE pf_x
             IN  [p EXCEPT !.graphic_bit_value =
                    IF p.pf[idx + 1]
                    THEN Some(IF p.score_mode THEN p.colors.colup1 ELSE p.colors.colupf)
                    ELSE None]

Playfield_clock(p) ==
    LET q == Playfield_tick_graphic_circuit(p)
    IN  [q EXCEPT !.ctr = Counter_clock(q.ctr).ctr]

Playfield_get_graphic(p) == p.graphic_bit_value

(***************************************************************************)
(* tia/ball.rs, tia/missile.rs, tia/player.rs.  An object is a record with *)
(* the fields of its struct and a kind.  Ball and Missile keep the         *)
(* graphics scan counter as graphic_bit_idx: Option<isize>; Player keeps   *)
(* it as graphic_delay, graphic_draw and graphic_bit_idx.  An              *)
(* Option<bool> is [some, b].                                              *)
(***************************************************************************)
NoneBool == [some |-> FALSE, b |-> FALSE]
SomeBool(b) == [some |-> TRUE, b |-> b]

INIT_DELAY(kind) == IF kind = "player" THEN 5 ELSE 4
GRAPHIC_SIZE(kind) == IF kind = "player" THEN 8 ELSE 1

new_ball ==
    [ kind |-> "ball", hmove_offset |-> 0, ctr |-> new_counter(40, 39),
      enabled |-> FALSE, nusiz |-> 1, vdel |-> FALSE, old_value |-> FALSE,
      graphic_bit_idx |-> None, graphic_bit_copies_written |-> 0,
      graphic_bit_value |-> NoneBool ]

new_missile ==
    [ kind |-> "missile", enabled |-> FALSE, hmove_offset |-> 0, nusiz |-> 0,
      ctr |-> new_counter(40, 39),
      graphic_bit_idx |-> None, graphic_bit_copies_written |-> 0,
      graphic_bit_value |-> NoneBool ]

new_player ==
    [ kind |-> "player", hmove_offset |-> 0, ctr |-> new_counter(40, 39),
      horizontal_mirror |-> FALSE, nusiz |-> 0, graphic |-> 0, graphic_delay |-> 5,
      vdel |-> FALSE, old_value |-> 0,
      graphic_draw |-> FALSE, graphic_bit_idx |-> 0, graphic_bit_copies_written |-> 0,
      graphic_bit_value |-> FALSE ]

\* Ball::size(), Missile::copies(), Player::copies()
copies(o) ==
    IF o.kind = "player"
    THEN (CASE o.nusiz = 5 -> 2 [] o.nusiz = 7 -> 4 [] OTHER -> 1)
    ELSE o.nusiz

pixel_bit(o) ==
    CASE o.kind = "ball"    -> (IF o.vdel THEN o.old_value ELSE o.enabled)
      [] o.kind = "missile" -> o.enabled
      [] o.kind = "player"  ->
            LET x       == o.graphic_bit_idx
                graphic == IF o.vdel THEN o.old_value ELSE o.graphic
            IN  IF o.horizontal_mirror THEN Bit(graphic, x) # 0
                ELSE Bit(graphic, 7 - x) # 0

\* Ball and Missile: tick_graphic_circuit()
Sprite_tick_graphic_circuit(o) ==
    IF o.graphic_bit_idx.some
    THEN LET idx == o.graphic_bit_idx.v
         IN  IF idx >= 0 /\ idx < 8
             THEN LET cw   == o.graphic_bit_copies_written + 1
                      adv  == cw = copies(o)
                      idx1 == IF adv THEN idx + 1 ELSE idx
                  IN  [o EXCEPT !.graphic_bit_value = SomeBool(pixel_bit(o)),
                                !.graphic_bit_copies_written = IF adv THEN 0 ELSE cw,
                                !.graphic_bit_idx = IF idx1 = GRAPHIC_SIZE(o.kind) THEN None
                                                    ELSE Some(idx1)]
             ELSE [o EXCEPT !.graphic_bit_idx = Some(idx + 1)]
    ELSE [o EXCEPT !.graphic_bit_value = NoneBool]

Player_tick_graphic_circuit(o) ==
    LET o1 == IF o.graphic_delay > 0
              THEN [o EXCEPT !.graphic_delay = @ - 1,
                             !.graphic_draw = IF o.graphic_delay - 1 = 0 THEN TRUE ELSE @]
              ELSE o
    IN  IF o1.graphic_delay = 0 /\ o1.graphic_draw
        THEN LET cw   == o1.graphic_bit_copies_written + 1
                 adv  == cw = copies(o1)
                 idx1 == IF adv THEN o1.graphic_bit_idx + 1 ELSE o1.graphic_bit_idx
                 end  == idx1 = GRAPHIC_SIZE(o.kind)
             IN  [o1 EXCEPT !.graphic_bit_value = pixel_bit(o1),
                            !.graphic_bit_copies_written = IF adv \/ end THEN 0 ELSE cw,
                            !.graphic_bit_idx = IF end THEN 0 ELSE idx1,
                            !.graphic_draw = IF end THEN FALSE ELSE @]
        ELSE o1

tick_graphic_circuit(o) ==
    IF o.kind = "player" THEN Player_tick_graphic_circuit(o)
    ELSE Sprite_tick_graphic_circuit(o)

should_draw_graphic(o) == Counter_value(o.ctr) = 39

should_draw_copy(o) ==
    IF o.kind = "ball" THEN FALSE
    ELSE LET count == Counter_value(o.ctr)
         IN  \/ (count = 3 /\ (o.nusiz = 1 \/ o.nusiz = 3))
             \/ (count = 7 /\ (o.nusiz = 2 \/ o.nusiz = 3 \/ o.nusiz = 6))
             \/ (count = 15 /\ (o.nusiz = 4 \/ o.nusiz = 6))

\* the start of a graphic or copy: the statements under each of the three
\* should_draw tests of reset(), clock() and apply_hmove()
start_graphic(o) ==
    IF o.kind = "player"
    THEN [o EXCEPT !.graphic_delay = INIT_DELAY(o.kind), !.graphic_draw = FALSE,
                   !.graphic_bit_copies_written = 0]
    ELSE [o EXCEPT !.graphic_bit_idx = Some(-1 * INIT_DELAY(o.kind)),
                   !.graphic_bit_copies_written = 0]

Sprite_reset(o) ==
    LET o1 == [o EXCEPT !.ctr = Counter_reset(o.ctr)]
    IN  IF should_draw_graphic(o1) \/ should_draw_copy(o1) THEN start_graphic(o1) ELSE o1

Sprite_start_hmove(o) ==
    tick_graphic_circuit([o EXCEPT !.ctr = Counter_start_hmove(o.ctr, o.hmove_offset)])

Sprite_clock(o) ==
    LET o1 == tick_graphic_circuit(o)
        r  == Counter_clock(o1.ctr)
        o2 == [o1 EXCEPT !.ctr = r.ctr]
    IN  IF r.clocked /\ (should_draw_graphic(o2) \/ should_draw_copy(o2))
        THEN start_graphic(o2) ELSE o2

Sprite_apply_hmove(o) ==
    LET r  == Counter_apply_hmove(o.ctr, o.hmove_offset)
        o1 == [o EXCEPT !.ctr = r.ctr]
        o2 == IF r.clocked /\ (should_draw_graphic(o1) \/ should_draw_copy(o1))
              THEN start_graphic(o1) ELSE o1
    IN  IF r.moved THEN tick_graphic_circuit(o2) ELSE o2

\* get_color(): whether the object gives a colour (its register's) or None
Sprite_get_color(o) ==
    IF o.kind = "player" THEN o.graphic_draw /\ o.graphic_bit_value
    ELSE o.graphic_bit_value = SomeBool(TRUE)

\* TIA::write(): the colour and playfield registers, on the playfield and the
\* Colors it shares with the TIA
TIA_write_playfield(p, address, val) ==
    CASE address = 6  -> [p EXCEPT !.colors.colup0 = BitAnd(val, 254)]
      [] address = 7  -> [p EXCEPT !.colors.colup1 = BitAnd(val, 254)]
      [] address = 8  -> [p EXCEPT !.colors.colupf = BitAnd(val, 254)]
      [] address = 9  -> [p EXCEPT !.colors.colubk = BitAnd(val, 254)]
      [] address = 10 -> Playfield_set_control(p, val)
      [] address = 13 -> Playfield_set_pf0(p, val)
      [] address = 14 -> Playfield_set_pf1(p, val)
      [] address = 15 -> Playfield_set_pf2(p, val)
      [] OTHER        -> p

\* new_tia: the player, missile and motion fields
new_sprites ==
    [ grp0 |-> 0, refp0 |-> FALSE, p0_x |-> 0, hmp0 |-> 0,
      grp1 |-> 0, refp1 |-> FALSE, p1_x |-> 0, hmp1 |-> 0,
      m0_x |-> 0, enam0 |-> FALSE, hmm0 |-> 0, m0_size |-> 0,
      m1_x |-> 0, enam1 |-> FALSE, hmm1 |-> 0, m1_size |-> 0 ]

\* the size decodes of CTRLPF, NUSIZ0 and NUSIZ1: match (val & 0b0011_0000) >> 4;
\* None is the unreachable!() arm
SizeDecode(val) ==
    LET s == BitAnd(val, 48) \div 16
    IN  CASE s = 0 -> Some(1) [] s = 1 -> Some(2) [] s = 2 -> Some(4) [] s = 3 -> Some(8)
          [] OTHER -> None

\* the centering offset of RESMP0 and RESMP1: match self.m0_size
CenterOffset(size) ==
    CASE size = 1 -> Some(3) [] size = 2 -> Some(6) [] size = 4 -> Some(10)
      [] size = 8 -> Some(15) [] OTHER -> None

\* TIA::write(): the player, missile and motion fields; ok is false when the
\* arm reaches unreachable!().  tia_hmove_value is the hmove_value() of
\* tia.rs, on the high nibble of an HMxx byte; ResetPosition is the position
\* RESP0 and RESP1 (left 3) and RESM0 and RESM1 (left 2) store.
TIA_write_sprites(g, t, address, val) ==
    LET tia_hmove_value(v) == IF v = 0 THEN 0 ELSE IF v < 8 THEN v + 8 ELSE v - 8
        ResetPosition(left) == IF in_hblank(t) THEN left ELSE t.ctr.internal_value - 68
        wrote(g1) == [gfx |-> g1, ok |-> TRUE]
        panic    == [gfx |-> g, ok |-> FALSE]
    IN  CASE address = 4  -> IF SizeDecode(val).some
                             THEN wrote([g EXCEPT !.m0_size = SizeDecode(val).v]) ELSE panic
          [] address = 5  -> IF SizeDecode(val).some
                             THEN wrote([g EXCEPT !.m1_size = SizeDecode(val).v]) ELSE panic
          [] address = 10 -> IF SizeDecode(val).some THEN wrote(g) ELSE panic
          [] address = 11 -> wrote([g EXCEPT !.refp0 = BitAnd(val, 8) # 0])
          [] address = 12 -> wrote([g EXCEPT !.refp1 = BitAnd(val, 8) # 0])
          [] address = 16 -> wrote([g EXCEPT !.p0_x = ResetPosition(3)])
          [] address = 17 -> wrote([g EXCEPT !.p1_x = ResetPosition(3)])
          [] address = 18 -> wrote([g EXCEPT !.m0_x = ResetPosition(2)])
          [] address = 19 -> wrote([g EXCEPT !.m1_x = ResetPosition(2)])
          [] address = 27 -> wrote([g EXCEPT !.grp0 = val])
          [] address = 28 -> wrote([g EXCEPT !.grp1 = val])
          [] address = 29 -> wrote([g EXCEPT !.enam0 = BitAnd(val, 2) # 0])
          [] address = 30 -> wrote([g EXCEPT !.enam1 = BitAnd(val, 2) # 0])
          [] address = 32 -> wrote([g EXCEPT !.hmp0 = tia_hmove_value(val \div 16)])
          [] address = 33 -> wrote([g EXCEPT !.hmp1 = tia_hmove_value(val \div 16)])
          [] address = 34 -> wrote([g EXCEPT !.hmm0 = tia_hmove_value(val \div 16)])
          [] address = 35 -> wrote([g EXCEPT !.hmm1 = tia_hmove_value(val \div 16)])
          [] address = 40 ->
                IF BitAnd(val, 2) # 0
                THEN (IF CenterOffset(g.m0_size).some
                      THEN wrote([g EXCEPT !.m0_x = g.p0_x + CenterOffset(g.m0_size).v])
                      ELSE panic)
                ELSE wrote(g)
          [] address = 41 ->
                IF BitAnd(val, 2) # 0
                THEN (IF CenterOffset(g.m0_size).some
                      THEN wrote([g EXCEPT !.m1_x = g.p1_x + CenterOffset(g.m0_size).v])
                      ELSE panic)
                ELSE wrote(g)
          [] address = 42 -> wrote([g EXCEPT !.p0_x = (g.p0_x + g.hmp0) % 160,
                                            !.p1_x = (g.p1_x + g.hmp1) % 160,
                                            !.m0_x = (g.m0_x + g.hmm0) % 160,
                                            !.m1_x = (g.m1_x + g.hmm1) % 160])
          [] address = 43 -> wrote([g EXCEPT !.hmp0 = 0, !.hmp1 = 0, !.hmm0 = 0, !.hmm1 = 0])
          [] OTHER        -> wrote(g)

\* what the last call on the TIA did: the call, the HSYNC position and the
\* scanline it found, the frame-buffer cell it wrote, and the end_of_frame
\* reports since the last VSYNC reset
NoBeam == [op |-> "none", address |-> 0, val |-> 0, pos |-> 0, scanline |-> 0,
           drawn |-> FALSE, y |-> 0, x |-> 0, eofs |-> 0]

\* no draw armed and left alone since: armed is set by the call that arms the
\* scan counter, t counts the tick_graphic_circuit() calls since, steady
\* falls with the first register setter, clear tells that the arming found
\* the output transparent and the player's bit index at 0
NoScan == [armed |-> FALSE, t |-> 0, steady |-> FALSE, clear |-> FALSE]

\* main() before the first pass of its frame loop
NoFrame == [phase |-> "vsync"]

\* new_tia, and beside it one of the objects in objects as constructed
InitTIAOf(objects) ==
    /\ tia = new_tia
    /\ tia_ticks = 0
    /\ tia_eof = FALSE
    /\ px = NoPixel
    /\ pfs = new_playfield
    /\ line = << >>
    /\ obj \in objects
    /\ gfx = new_sprites
    /\ beam = NoBeam
    /\ scan = NoScan
    /\ fl = NoFrame

InitTIA == InitTIAOf({ new_ball })

(***************************************************************************)
(* riot.rs                                                                 *)
(***************************************************************************)
\* a usize that was decremented below zero in a build without overflow
\* checks: usize::MAX less a number of ticks far below any horizon followed
\* here, so it stays in this class under further decrements and is never 0
USIZE_WRAPPED == -1

RIOT_new ==
    [ ram         |-> <<>>,
      swcha       |-> 0,
      swacnt      |-> 0,
      swchb       |-> 0,
      swbcnt      |-> 0,
      intim       |-> 0,
      instat      |-> 0,
      port_a      |-> 0,
      port_b      |-> 200,
      resolution  |-> 0,
      cycle_count |-> 0 ]

RIOT_color(r) ==
    [r EXCEPT !.port_b = IF BitAnd(@, 8) # 0 THEN BitAnd(@, 247) ELSE BitOr(@, 8)]
RIOT_reset(r, pressed) ==
    [r EXCEPT !.port_b = IF pressed THEN BitAnd(@, 254) ELSE BitOr(@, 1)]
RIOT_select(r, pressed) ==
    [r EXCEPT !.port_b = IF pressed THEN BitAnd(@, 253) ELSE BitOr(@, 2)]
\* RIOT::up with the two branches exchanged
RIOT_up_set_when_pressed(r, pressed) ==
    [r EXCEPT !.port_a = IF pressed THEN BitOr(@, 16) ELSE BitAnd(@, 239)]
RIOT_up(r, pressed) ==
    [r EXCEPT !.port_a = IF pressed THEN BitAnd(@, 239) ELSE BitOr(@, 16)]
RIOT_down(r, pressed) ==
    [r EXCEPT !.port_a = IF pressed THEN BitAnd(@, 223) ELSE BitOr(@, 32)]
RIOT_left(r, pressed) ==
    [r EXCEPT !.port_a = IF pressed THEN BitAnd(@, 191) ELSE BitOr(@, 64)]
RIOT_right(r, pressed) ==
    [r EXCEPT !.port_a = IF pressed THEN BitAnd(@, 127) ELSE BitOr(@, 128)]

\* the RAM array behind its non-zero cells
RamGet(ram, k) == IF k \in DOMAIN ram THEN ram[k] ELSE 0
RamPut(ram, k, v) ==
    LET keys == IF v = 0 THEN DOMAIN ram \ {k} ELSE DOMAIN ram \cup {k}
    IN  [j \in keys |-> IF j = k THEN v ELSE ram[j]]

\* decrement() keeping the resolution when INTIM underflows
RIOT_decrement_keeps_resolution(r) ==
    LET underflowed == (r.intim = 0)
        new_intim   == (r.intim - 1) % U8
        r1 == IF underflowed
              THEN [r EXCEPT !.intim = new_intim, !.instat = 192]
              ELSE [r EXCEPT !.intim = new_intim]
    IN  [r1 EXCEPT !.cycle_count = r1.resolution]

RIOT_decrement(r) ==
    LET underflowed == (r.intim = 0)
        new_intim   == (r.intim - 1) % U8
        r1 == IF underflowed
              THEN [r EXCEPT !.intim = new_intim, !.instat = 192, !.resolution = 1]
              ELSE [r EXCEPT !.intim = new_intim]
    IN  [r1 EXCEPT !.cycle_count = r1.resolution]

\* init_timer() without the immediate decrement
RIOT_init_timer_no_decrement(r, val, resolution) ==
    [r EXCEPT !.intim = val, !.resolution = resolution, !.cycle_count = resolution]

RIOT_init_timer(r, val, resolution) ==
    RIOT_decrement([r EXCEPT !.intim = val, !.resolution = resolution])

\* RIOT::clock(); panic is the overflow check on `cycle_count -= 1`
RIOT_clock(r, checks) ==
    IF r.cycle_count = 0
    THEN [riot |-> [r EXCEPT !.cycle_count = USIZE_WRAPPED], panic |-> checks]
    ELSE IF r.cycle_count = USIZE_WRAPPED
    THEN [riot |-> r, panic |-> FALSE]
    ELSE IF r.cycle_count - 1 = 0
    THEN [riot |-> RIOT_decrement([r EXCEPT !.cycle_count = 0]), panic |-> FALSE]
    ELSE [riot |-> [r EXCEPT !.cycle_count = @ - 1], panic |-> FALSE]

\* RIOT::read() whose INSTAT read clears bit 7 as well
RIOT_read_clears_both(r, address) ==
    CASE address \in 0..127 -> [riot |-> r, val |-> RamGet(r.ram, address)]
      [] address = 640 ->
            [riot |-> r,
             val  |-> BitOr(BitAnd(r.swcha, r.swacnt), BitAnd(r.port_a, 255 - r.swacnt))]
      [] address = 642 ->
            [riot |-> r,
             val  |-> BitOr(BitAnd(r.swchb, r.swbcnt), BitAnd(r.port_b, 255 - r.swbcnt))]
      [] address = 644 -> [riot |-> r, val |-> r.intim]
      [] address = 645 ->
            [riot |-> [r EXCEPT !.instat = BitAnd(@, 63)], val |-> r.instat]
      [] OTHER -> [riot |-> r, val |-> 0]

RIOT_read(r, address) ==
    CASE address \in 0..127 -> [riot |-> r, val |-> RamGet(r.ram, address)]
      [] address = 640 ->
            [riot |-> r,
             val  |-> BitOr(BitAnd(r.swcha, r.swacnt), BitAnd(r.port_a, 255 - r.swacnt))]
      [] address = 642 ->
            [riot |-> r,
             val  |-> BitOr(BitAnd(r.swchb, r.swbcnt), BitAnd(r.port_b, 255 - r.swbcnt))]
      [] address = 644 -> [riot |-> r, val |-> r.intim]
      [] address = 645 ->
            [riot |-> [r EXCEPT !.instat = BitAnd(@, 191)], val |-> r.instat]
      [] OTHER -> [riot |-> r, val |-> 0]

RIOT_write(r, address, val) ==
    CASE address \in 0..127 -> [r EXCEPT !.ram = RamPut(@, address, val)]
      [] address = 641 -> [r EXCEPT !.swacnt = val]
      [] address = 643 -> [r EXCEPT !.swbcnt = val]
      [] address = 660 -> RIOT_init_timer(r, val, 1)
      [] address = 661 -> RIOT_init_timer(r, val, 8)
      [] address = 662 -> RIOT_init_timer(r, val, 64)
      [] address = 663 -> RIOT_init_timer(r, val, 1024)
      [] OTHER -> r

(***************************************************************************)
(* bus.rs and the CPU's side of the bus (cpu6507.rs, impl Bus for CPU6507) *)
(*                                                                         *)
(* A machine m is the three devices behind the bus: [tia, riot, rom].      *)
(* Every access returns the machine after it, the byte read, the device    *)
(* call it was turned into and whether it completed (an index past the end *)
(* of rom panics).                                                         *)
(***************************************************************************)
\* the cartridge image read from the file: byte k of a 4 KiB image
RomImage(k) == (k + (k \div 256)) % 256

RomGet(r, k) == IF k \in DOMAIN r.patch THEN r.patch[k] ELSE RomImage(k)
RomPut(r, k, v) ==
    [r EXCEPT !.patch = [j \in DOMAIN r.patch \cup {k} |-> IF j = k THEN v ELSE r.patch[j]]]

\* AtariBus::read with the RIOT RAM address left at the low byte
AtariBus_read_ram_low_byte(m, address) ==
    LET a12 == BitAnd(address, 4096) # 0
        a9  == BitAnd(address, 512) # 0
        a7  == BitAnd(address, 128) # 0
    IN  CASE a12 ->
               LET k == BitAnd(address, 4095)
               IN  IF k < m.rom.len
                   THEN [m |-> m, val |-> RomGet(m.rom, k), ok |-> TRUE,
                         call |-> [dev |-> "rom", addr |-> k]]
                   ELSE [m |-> m, val |-> 0, ok |-> FALSE,
                         call |-> [dev |-> "rom", addr |-> k]]
          [] ~a12 /\ a9 /\ a7 ->
               LET r == RIOT_read(m.riot, BitAnd(address, 767))
               IN  [m |-> [m EXCEPT !.riot = r.riot], val |-> r.val, ok |-> TRUE,
                    call |-> [dev |-> "riot", addr |-> BitAnd(address, 767)]]
          [] ~a12 /\ ~a9 /\ a7 ->
               LET r == RIOT_read(m.riot, BitAnd(address, 255))
               IN  [m |-> [m EXCEPT !.riot = r.riot], val |-> r.val, ok |-> TRUE,
                    call |-> [dev |-> "riot", addr |-> BitAnd(address, 255)]]
          [] OTHER ->
               [m |-> m, val |-> TIA_read(m.tia, BitOr(BitAnd(address, 15), 48)), ok |-> TRUE,
                call |-> [dev |-> "tia", addr |-> BitOr(BitAnd(address, 15), 48)]]

AtariBus_read(m, address) ==
    LET a12 == BitAnd(address, 4096) # 0
        a9  == BitAnd(address, 512) # 0
        a7  == BitAnd(address, 128) # 0
    IN  CASE a12 ->
               LET k == BitAnd(address, 4095)
               IN  IF k < m.rom.len
                   THEN [m |-> m, val |-> RomGet(m.rom, k), ok |-> TRUE,
                         call |-> [dev |-> "rom", addr |-> k]]
                   ELSE [m |-> m, val |-> 0, ok |-> FALSE,
                         call |-> [dev |-> "rom", addr |-> k]]
          [] ~a12 /\ a9 /\ a7 ->
               LET r == RIOT_read(m.riot, BitAnd(address, 767))
               IN  [m |-> [m EXCEPT !.riot = r.riot], val |-> r.val, ok |-> TRUE,
                    call |-> [dev |-> "riot", addr |-> BitAnd(address, 767)]]
          [] ~a12 /\ ~a9 /\ a7 ->
               LET r == RIOT_read(m.riot, BitAnd(address, 127))
               IN  [m |-> [m EXCEPT !.riot = r.riot], val |-> r.val, ok |-> TRUE,
                    call |-> [dev |-> "riot", addr |-> BitAnd(address, 127)]]
          [] OTHER ->
               [m |-> m, val |-> TIA_read(m.tia, BitOr(BitAnd(address, 15), 48)), ok |-> TRUE,
                call |-> [dev |-> "tia", addr |-> BitOr(BitAnd(address, 15), 48)]]

AtariBus_write(m, address, val) ==
    LET a12 == BitAnd(address, 4096) # 0
        a9  == BitAnd(address, 512) # 0
        a7  == BitAnd(address, 128) # 0
    IN  CASE a12 ->
               LET k == BitAnd(address, 4095)
               IN  IF k < m.rom.len
                   THEN [m |-> [m EXCEPT !.rom = RomPut(@, k, val)], val |-> val, ok |-> TRUE,
                         call |-> [dev |-> "rom", addr |-> k]]
                   ELSE [m |-> m, val |-> val, ok |-> FALSE,
                         call |-> [dev |-> "rom", addr |-> k]]
          [] ~a12 /\ a9 /\ a7 ->
               [m |-> [m EXCEPT !.riot = RIOT_write(@, BitAnd(address, 767), val)],
                val |-> val, ok |-> TRUE,
                call |-> [dev |-> "riot", addr |-> BitAnd(address, 767)]]
          [] ~a12 /\ ~a9 /\ a7 ->
               [m |-> [m EXCEPT !.riot = RIOT_write(@, BitAnd(address, 127), val)],
                val |-> val, ok |-> TRUE,
                call |-> [dev |-> "riot", addr |-> BitAnd(address, 127)]]
          [] OTHER ->
               [m |-> [m EXCEPT !.tia = TIA_write(@, BitAnd(address, 63), val)],
                val |-> val, ok |-> TRUE,
                call |-> [dev |-> "tia", addr |-> BitAnd(address, 63)]]

\* impl Bus for CPU6507: only 13 address lines are connected
CPU_read(m, addr) == AtariBus_read(m, BitAnd(addr, 8191))
CPU_write(m, addr, val) == AtariBus_write(m, BitAnd(addr, 8191), val)

(***************************************************************************)
(* cpu6507.rs: the cycle accounting of the CPU and the bus writes of its   *)
(* instructions.  The registers, flags, program counter and the bytes the  *)
(* program reads are inputs of each step: the opcode fetched, whether the  *)
(* indexed address crossed a page, whether a branch is taken and to which  *)
(* page, the address and byte stored, the bytes pushed, the X copied by    *)
(* TXS.  The stack pointer is kept, because it decides which device a push *)
(* reaches.                                                                *)
(***************************************************************************)
STACK_INIT == 255

\* a u64 that was decremented below zero in a build without overflow checks
U64_WRAPPED == -1

\* the table, entry op + 1 for opcode op: instruction, mode, cycles, extra
\* cycles on a page cross
OPCODES == <<
    <<"BRK", "Implied", 7, 0>>, <<"ORA", "IndexedIndirect", 6, 0>>, <<"JAM", "Implied", 0, 0>>, <<"SLO", "IndexedIndirect", 8, 0>>,
    <<"NOP", "ZeroPageIndexed", 3, 0>>, <<"ORA", "ZeroPageIndexed", 3, 0>>, <<"ASL", "ZeroPageIndexed", 5, 0>>, <<"SLO", "ZeroPageIndexed", 5, 0>>,
    <<"PHP", "Implied", 3, 0>>, <<"ORA", "Immediate", 2, 0>>, <<"ASL", "Accumulator", 2, 0>>, <<"ANC", "Immediate", 2, 0>>,
    <<"NOP", "Absolute", 4, 0>>, <<"ORA", "Absolute", 4, 0>>, <<"ASL", "Absolute", 6, 0>>, <<"SLO", "Absolute", 6, 0>>,
    <<"BPL", "Relative", 2, 1>>, <<"ORA", "IndirectIndexed", 5, 1>>, <<"JAM", "Implied", 0, 0>>, <<"SLO", "IndirectIndexed", 8, 0>>,
    <<"NOP", "ZeroPageX", 4, 0>>, <<"ORA", "ZeroPageX", 4, 0>>, <<"ASL", "ZeroPageX", 6, 0>>, <<"SLO", "ZeroPageX", 6, 0>>,
    <<"CLC", "Implied", 2, 0>>, <<"ORA", "AbsoluteY", 4, 1>>, <<"NOP", "Implied", 2, 0>>, <<"SLO", "AbsoluteY", 7, 0>>,
    <<"NOP", "AbsoluteX", 4, 1>>, <<"ORA", "AbsoluteX", 4, 1>>, <<"ASL", "AbsoluteX", 7, 0>>, <<"SLO", "AbsoluteX", 7, 0>>,
    <<"JSR", "Absolute", 6, 0>>, <<"AND", "IndexedIndirect", 6, 0>>, <<"JAM", "Implied", 0, 0>>, <<"RLA", "IndexedIndirect", 8, 0>>,
    <<"BIT", "ZeroPageIndexed", 3, 0>>, <<"AND", "ZeroPageIndexed", 3, 0>>, <<"ROL", "ZeroPageIndexed", 5, 0>>, <<"RLA", "ZeroPageIndexed", 5, 0>>,
    <<"PLP", "Implied", 4, 0>>, <<"AND", "Immediate", 2, 0>>, <<"ROL", "Accumulator", 2, 0>>, <<"ANC", "Immediate", 2, 0>>,
    <<"BIT", "Absolute", 4, 0>>, <<"AND", "Absolute", 4, 0>>, <<"ROL", "Absolute", 6, 0>>, <<"RLA", "Absolute", 6, 0>>,
    <<"BMI", "Relative", 2, 1>>, <<"AND", "IndirectIndexed", 5, 1>>, <<"JAM", "Implied", 0, 0>>, <<"RLA", "IndirectIndexed", 8, 0>>,
    <<"NOP", "ZeroPageX", 4, 0>>, <<"AND", "ZeroPageX", 4, 0>>, <<"ROL", "ZeroPageX", 6, 0>>, <<"RLA", "ZeroPageX", 6, 0>>,
    <<"SEC", "Implied", 2, 0>>, <<"AND", "AbsoluteY", 4, 1>>, <<"NOP", "Implied", 2, 0>>, <<"RLA", "AbsoluteY", 7, 0>>,
    <<"NOP", "AbsoluteX", 4, 1>>, <<"AND", "AbsoluteX", 4, 1>>, <<"ROL", "AbsoluteX", 7, 0>>, <<"RLA", "AbsoluteX", 7, 0>>,
    <<"RTI", "Implied", 6, 0>>, <<"EOR", "IndexedIndirect", 6, 0>>, <<"JAM", "Implied", 0, 0>>, <<"SRE", "IndexedIndirect", 8, 0>>,
    <<"NOP", "ZeroPageIndexed", 3, 0>>, <<"EOR", "ZeroPageIndexed", 3, 0>>, <<"LSR", "ZeroPageIndexed", 5, 0>>, <<"SRE", "ZeroPageIndexed", 5, 0>>,
    <<"PHA", "Implied", 3, 0>>, <<"EOR", "Immediate", 2, 0>>, <<"LSR", "Accumulator", 2, 0>>, <<"None", "None", 0, 0>>,
    <<"JMP", "Absolute", 3, 0>>, <<"EOR", "Absolute", 4, 0>>, <<"LSR", "Absolute", 6, 0>>, <<"SRE", "Absolute", 6, 0>>,
    <<"BVC", "Relative", 2, 1>>, <<"EOR", "IndirectIndexed", 5, 1>>, <<"JAM", "Implied", 0, 0>>, <<"SRE", "IndirectIndexed", 8, 0>>,
    <<"NOP", "ZeroPageX", 4, 0>>, <<"EOR", "ZeroPageX", 4, 0>>, <<"LSR", "ZeroPageX", 6, 0>>, <<"SRE", "ZeroPageX", 6, 0>>,
    <<"CLI", "Implied", 2, 0>>, <<"EOR", "AbsoluteY", 4, 1>>, <<"NOP", "Implied", 2, 0>>, <<"SRE", "AbsoluteY", 7, 0>>,
    <<"NOP", "AbsoluteX", 4, 1>>, <<"EOR", "AbsoluteX", 4, 1>>, <<"LSR", "AbsoluteX", 7, 0>>, <<"SRE", "AbsoluteX", 7, 0>>,
    <<"RTS", "Implied", 6, 0>>, <<"ADC", "IndexedIndirect", 6, 0>>, <<"JAM", "Implied", 0, 0>>, <<"RRA", "IndexedIndirect", 8, 0>>,
    <<"NOP", "ZeroPageIndexed", 3, 0>>, <<"ADC", "ZeroPageIndexed", 3, 0>>, <<"ROR", "ZeroPageIndexed", 5, 0>>, <<"RRA", "ZeroPageIndexed", 5, 0>>,
    <<"PLA", "Implied", 4, 0>>, <<"ADC", "Immediate", 2, 0>>, <<"ROR", "Accumulator", 2, 0>>, <<"None", "None", 0, 0>>,
    <<"JMP", "Indirect", 5, 0>>, <<"ADC", "Absolute", 4, 0>>, <<"ROR", "Absolute", 6, 0>>, <<"RRA", "Absolute", 6, 0>>,
    <<"BVS", "Relative", 2, 1>>, <<"ADC", "IndirectIndexed", 5, 1>>, <<"JAM", "Implied", 0, 0>>, <<"RRA", "IndirectIndexed", 8, 0>>,
    <<"NOP", "ZeroPageX", 4, 0>>, <<"ADC", "ZeroPageX", 4, 0>>, <<"ROR", "ZeroPageX", 6, 0>>, <<"RRA", "ZeroPageX", 6, 0>>,
    <<"SEI", "Implied", 2, 0>>, <<"ADC", "AbsoluteY", 4, 1>>, <<"NOP", "Implied", 2, 0>>, <<"RRA", "AbsoluteY", 7, 0>>,
    <<"NOP", "AbsoluteX", 4, 1>>, <<"ADC", "AbsoluteX", 4, 1>>, <<"ROR", "AbsoluteX", 7, 0>>, <<"RRA", "AbsoluteX", 7, 0>>,
    <<"NOP", "Immediate", 2, 0>>, <<"STA", "IndexedIndirect", 6, 0>>, <<"NOP", "Immediate", 2, 0>>, <<"SAX", "IndexedIndirect", 6, 0>>,
    <<"STY", "ZeroPageIndexed", 3, 0>>, <<"STA", "ZeroPageIndexed", 3, 0>>, <<"STX", "ZeroPageIndexed", 3, 0>>, <<"SAX", "ZeroPageIndexed", 3, 0>>,
    <<"DEY", "Implied", 2, 0>>, <<"NOP", "Immediate", 2, 0>>, <<"TXA", "Implied", 2, 0>>, <<"None", "None", 0, 0>>,
    <<"STY", "Absolute", 4, 0>>, <<"STA", "Absolute", 4, 0>>, <<"STX", "Absolute", 4, 0>>, <<"SAX", "Absolute", 4, 0>>,
    <<"BCC", "Relative", 2, 1>>, <<"STA", "IndirectIndexed", 6, 0>>, <<"JAM", "Implied", 0, 0>>, <<"None", "None", 0, 0>>,
    <<"STY", "ZeroPageX", 4, 0>>, <<"STA", "ZeroPageX", 4, 0>>, <<"STX", "ZeroPageY", 4, 0>>, <<"SAX", "ZeroPageY", 4, 0>>,
    <<"TYA", "Implied", 2, 0>>, <<"STA", "AbsoluteY", 5, 0>>, <<"TXS", "Implied", 2, 0>>, <<"None", "None", 0, 0>>,
    <<"None", "None", 0, 0>>, <<"STA", "AbsoluteX", 5, 0>>, <<"None", "None", 0, 0>>, <<"None", "None", 0, 0>>,
    <<"LDY", "Immediate", 2, 0>>, <<"LDA", "IndexedIndirect", 6, 0>>, <<"LDX", "Immediate", 2, 0>>, <<"LAX", "IndexedIndirect", 6, 0>>,
    <<"LDY", "ZeroPageIndexed", 3, 0>>, <<"LDA", "ZeroPageIndexed", 3, 0>>, <<"LDX", "ZeroPageIndexed", 3, 0>>, <<"LAX", "ZeroPageIndexed", 3, 0>>,
    <<"TAY", "Implied", 2, 0>>, <<"LDA", "Immediate", 2, 0>>, <<"TAX", "Implied", 2, 0>>, <<"None", "None", 0, 0>>,
    <<"LDY", "Absolute", 4, 0>>, <<"LDA", "Absolute", 4, 0>>, <<"LDX", "Absolute", 4, 0>>, <<"LAX", "Absolute", 4, 0>>,
    <<"BCS", "Relative", 2, 1>>, <<"LDA", "IndirectIndexed", 5, 1>>, <<"JAM", "Implied", 0, 0>>, <<"LAX", "IndirectIndexed", 5, 1>>,
    <<"LDY", "ZeroPageX", 4, 0>>, <<"LDA", "ZeroPageX", 4, 0>>, <<"LDX", "ZeroPageY", 4, 0>>, <<"LAX", "ZeroPageY", 4, 0>>,
    <<"CLV", "Implied", 2, 0>>, <<"LDA", "AbsoluteY", 4, 1>>, <<"TSX", "Implied", 2, 0>>, <<"None", "None", 0, 0>>,
    <<"LDY", "AbsoluteX", 4, 1>>, <<"LDA", "AbsoluteX", 4, 1>>, <<"LDX", "AbsoluteY", 4, 1>>, <<"LAX", "AbsoluteY", 4, 1>>,
    <<"CPY", "Immediate", 2, 0>>, <<"CMP", "IndexedIndirect", 6, 0>>, <<"NOP", "Immediate", 2, 0>>, <<"DCP", "IndexedIndirect", 8, 0>>,
    <<"CPY", "ZeroPageIndexed", 3, 0>>, <<"CMP", "ZeroPageIndexed", 3, 0>>, <<"DEC", "ZeroPageIndexed", 5, 0>>, <<"DCP", "ZeroPageIndexed", 5, 0>>,
    <<"INY", "Implied", 2, 0>>, <<"CMP", "Immediate", 2, 0>>, <<"DEX", "Implied", 2, 0>>, <<"None", "None", 0, 0>>,
    <<"CPY", "Absolute", 4, 0>>, <<"CMP", "Absolute", 4, 0>>, <<"DEC", "Absolute", 6, 0>>, <<"DCP", "Absolute", 6, 0>>,
    <<"BNE", "Relative", 2, 1>>, <<"CMP", "IndirectIndexed", 5, 1>>, <<"JAM", "Implied", 0, 0>>, <<"DCP", "IndirectIndexed", 8, 0>>,
    <<"NOP", "ZeroPageX", 4, 0>>, <<"CMP", "ZeroPageX", 4, 0>>, <<"DEC", "ZeroPageX", 6, 0>>, <<"DCP", "ZeroPageX", 6, 0>>,
    <<"CLD", "Implied", 2, 0>>, <<"CMP", "AbsoluteY", 4, 1>>, <<"NOP", "Implied", 2, 0>>, <<"DCP", "AbsoluteY", 7, 0>>,
    <<"NOP", "AbsoluteX", 4, 1>>, <<"CMP", "AbsoluteX", 4, 1>>, <<"DEC", "AbsoluteX", 7, 0>>, <<"DCP", "AbsoluteX", 7, 0>>,
    <<"CPX", "Immediate", 2, 0>>, <<"SBC", "IndexedIndirect", 6, 0>>, <<"NOP", "Immediate", 2, 0>>, <<"ISB", "IndexedIndirect", 8, 0>>,
    <<"CPX", "ZeroPageIndexed", 3, 0>>, <<"SBC", "ZeroPageIndexed", 3, 0>>, <<"INC", "ZeroPageIndexed", 5, 0>>, <<"ISB", "ZeroPageIndexed", 5, 0>>,
    <<"INX", "Implied", 2, 0>>, <<"SBC", "Immediate", 2, 0>>, <<"NOP", "Implied", 2, 0>>, <<"SBC", "Immediate", 2, 0>>,
    <<"CPX", "Absolute", 4, 0>>, <<"SBC", "Absolute", 4, 0>>, <<"INC", "Absolute", 6, 0>>, <<"ISB", "Absolute", 6, 0>>,
    <<"BEQ", "Relative", 2, 1>>, <<"SBC", "IndirectIndexed", 5, 1>>, <<"JAM", "Implied", 0, 0>>, <<"ISB", "IndirectIndexed", 8, 0>>,
    <<"NOP", "ZeroPageX", 4, 0>>, <<"SBC", "ZeroPageX", 4, 0>>, <<"INC", "ZeroPageX", 6, 0>>, <<"ISB", "ZeroPageX", 6, 0>>,
    <<"SED", "Implied", 2, 0>>, <<"SBC", "AbsoluteY", 4, 1>>, <<"NOP", "Implied", 2, 0>>, <<"ISB", "AbsoluteY", 7, 0>>,
    <<"NOP", "AbsoluteX", 4, 1>>, <<"SBC", "AbsoluteX", 4, 1>>, <<"INC", "AbsoluteX", 7, 0>>, <<"ISB", "AbsoluteX", 7, 0>>
>>

Opcode(op) ==
    [inst   |-> OPCODES[op + 1][1],
     mode   |-> OPCODES[op + 1][2],
     cycles |-> OPCODES[op + 1][3],
     extra_cycles |-> OPCODES[op + 1][4]]

\* AddressingMode::n_bytes panics for the modes it does not list
n_bytes_panics(mode) == mode = "None"

\* the page_crossed results AddressingMode::get_data can return
get_data_page_crossed(mode) ==
    IF mode \in { "AbsoluteX", "AbsoluteY", "IndirectIndexed" } THEN BOOLEAN ELSE { FALSE }

CPU_new ==
    [ sp                  |-> STACK_INIT,
      current_instruction |-> "None",
      current_addr_mode   |-> "Accumulator",
      current_cycles      |-> 0 ]

\* CPU6507::reset(), as far as this record goes
CPU_reset(cp) == [cp EXCEPT !.sp = STACK_INIT]

\* CPU6507::stack_pop8 reading before it moves the stack pointer
CPU_stack_pop8_read_first(cp, m) ==
    LET r == CPU_read(m, cp.sp)
    IN  [cpu |-> [cp EXCEPT !.sp = (cp.sp + 1) % 256], m |-> r.m, val |-> r.val]
CPU_stack_pop8(cp, m) ==
    LET n == (cp.sp + 1) % 256
        r == CPU_read(m, n)
    IN  [cpu |-> [cp EXCEPT !.sp = n], m |-> r.m, val |-> r.val]

CPU_stack_push8(cp, m, val) ==
    [cpu |-> [cp EXCEPT !.sp = (cp.sp - 1) % 256], m |-> CPU_write(m, cp.sp, val).m]

\* the flags of CPU6507::new
CPU_new_flags ==
    [c |-> FALSE, z |-> FALSE, i |-> FALSE, d |-> FALSE,
     b |-> FALSE, u |-> FALSE, v |-> FALSE, s |-> FALSE]

B2N(flag) == IF flag THEN 1 ELSE 0

CPU_flags(f) ==
    BitOr(B2N(f.c), BitOr(B2N(f.z) * 2, BitOr(B2N(f.i) * 4, BitOr(B2N(f.d) * 8,
    BitOr(B2N(f.b) * 16, BitOr(B2N(f.u) * 32, BitOr(B2N(f.v) * 64, B2N(f.s) * 128)))))))

CPU_set_flags(val) ==
    [c |-> BitAnd(val, 1) = 1,
     z |-> BitAnd(val \div 2, 1) = 1,
     i |-> BitAnd(val \div 4, 1) = 1,
     d |-> BitAnd(val \div 8, 1) = 1,
     b |-> BitAnd(val \div 16, 1) = 1,
     u |-> BitAnd(val \div 32, 1) = 1,
     v |-> BitAnd(val \div 64, 1) = 1,
     s |-> BitAnd(val \div 128, 1) = 1]

\* the handlers that move the flags through the stack; each returns the
\* CPU after it, its flags, the machine and the flag byte pushed or popped
CPU_php(cp, f, m) ==
    LET flags == BitOr(CPU_flags(f), 16)
        r == CPU_stack_push8(cp, m, flags)
    IN  [cpu |-> r.cpu, sr |-> f, m |-> r.m, val |-> flags, ok |-> TRUE]

CPU_pha(cp, f, m, a) ==
    LET r == CPU_stack_push8(cp, m, a)
    IN  [cpu |-> r.cpu, sr |-> f, m |-> r.m, val |-> a, ok |-> TRUE]

\* CPU6507::plp keeping bit 4 of the byte popped
CPU_plp_keeps_break(cp, f, m) ==
    LET r == CPU_stack_pop8(cp, m)
    IN  [cpu |-> r.cpu, sr |-> CPU_set_flags(BitOr(r.val, 32)), m |-> r.m,
         val |-> r.val, ok |-> TRUE]
CPU_plp(cp, f, m) ==
    LET r == CPU_stack_pop8(cp, m)
    IN  [cpu |-> r.cpu, sr |-> CPU_set_flags(BitOr(BitAnd(r.val, 239), 32)), m |-> r.m,
         val |-> r.val, ok |-> TRUE]

\* a run of pops and a run of pushes, one after the other on the same stack
PopOnto(st) ==
    LET r == CPU_stack_pop8(st.cpu, st.m)
    IN  [cpu |-> r.cpu, m |-> r.m, vals |-> Append(st.vals, r.val)]
PushOnto(st, val) ==
    LET r == CPU_stack_push8(st.cpu, st.m, val)
    IN  [cpu |-> r.cpu, m |-> r.m, vals |-> Append(st.vals, val)]

\* the flag byte is popped first, the return address after it
CPU_rti_done(f, st) ==
    [cpu |-> st.cpu, sr |-> CPU_set_flags(BitOr(BitAnd(st.vals[1], 239), 32)), m |-> st.m,
     val |-> st.vals[1], ok |-> TRUE]
CPU_rti(cp, f, m) ==
    CPU_rti_done(f, PopOnto(PopOnto(PopOnto([cpu |-> cp, m |-> m, vals |-> << >>]))))

\* the vector is read after the pushes
CPU_brk_vector(f, st, v1) ==
    [cpu |-> st.cpu, sr |-> [f EXCEPT !.b = TRUE, !.i = TRUE],
     m |-> CPU_read(v1.m, 65535).m,
     val |-> st.vals[3], ok |-> v1.ok /\ CPU_read(v1.m, 65535).ok]
CPU_brk_pushed(f, st) == CPU_brk_vector(f, st, CPU_read(st.m, 65534))
\* pc is self.pc + 1, the return address pushed
CPU_brk(cp, f, m, pc) ==
    CPU_brk_pushed(f,
        PushOnto(PushOnto(PushOnto([cpu |-> cp, m |-> m, vals |-> << >>],
            pc \div 256), pc % 256), BitOr(CPU_flags([f EXCEPT !.b = TRUE]), 16)))

\* the input of a step that takes none
NoInput == [op |-> 234, page_crossed |-> FALSE, taken |-> FALSE, pages_differ |-> FALSE,
            addr |-> 0, val |-> 0, pushed |-> <<0, 0, 0>>, x |-> STACK_INIT]

\* fetch_and_decode(): new_cycles with extra cycles charged on a page cross
CPU_fetch_and_decode(cp, in) ==
    LET o == Opcode(in.op)
    IN  [ cpu |-> [cp EXCEPT !.current_instruction = o.inst,
                              !.current_addr_mode = o.mode],
          new_cycles |-> IF in.page_crossed THEN o.cycles + o.extra_cycles ELSE o.cycles,
          panic |-> n_bytes_panics(o.mode) ]

\* the instructions whose handler stores one byte at the operand address
StoreInsts == { "STA", "STX", "STY", "SAX", "DEC", "INC", "DCP", "ISB" }
ShiftInsts == { "ASL", "LSR", "ROL", "ROR", "SLO", "RLA", "SRE", "RRA" }
BranchInsts == { "BCC", "BCS", "BEQ", "BMI", "BNE", "BPL", "BVC", "BVS" }

\* bytes pushed (stack_push8 calls) and pulled (stack_pop8 calls)
Pushes(inst) ==
    CASE inst \in { "PHA", "PHP" } -> 1
      [] inst = "JSR" -> 2
      [] inst = "BRK" -> 3
      [] OTHER -> 0
Pops(inst) ==
    CASE inst \in { "PLA", "PLP" } -> 1
      [] inst = "RTS" -> 2
      [] inst = "RTI" -> 3
      [] OTHER -> 0

\* the bus writes of one instruction's handler, in order
WritesOf(cp, in) ==
    LET inst == cp.current_instruction
    IN  CASE inst \in StoreInsts -> << [addr |-> in.addr, val |-> in.val] >>
          [] inst \in ShiftInsts /\ cp.current_addr_mode # "Accumulator" ->
                << [addr |-> in.addr, val |-> in.val] >>
          [] Pushes(inst) > 0 ->
                [k \in 1..Pushes(inst) |->
                    [addr |-> (cp.sp - (k - 1)) % U8, val |-> in.pushed[k]]]
          [] OTHER -> << >>

\* the machine after each of a sequence of CPU writes: entry 1 is the machine
\* before the first write, entry k + 1 the machine after the k-th
RECURSIVE WriteTrail(_, _)
WriteTrail(m, wr) ==
    IF wr = << >> THEN << [m |-> m, ok |-> TRUE, call |-> [dev |-> "none", addr |-> 0], val |-> 0] >>
    ELSE LET r == CPU_write(m, wr[1].addr, wr[1].val)
             rest == WriteTrail(r.m, Tail(wr))
         IN  << [m |-> m, ok |-> TRUE, call |-> [dev |-> "none", addr |-> 0], val |-> 0] >>
             \o << [rest[1] EXCEPT !.ok = r.ok, !.call = r.call, !.val = r.val] >>
             \o Tail(rest)

\* add_branch_cycles()
add_branch_cycles(in) == IF in.pages_differ THEN 2 ELSE 1

\* execute(): the handler of current_instruction
CPU_execute(cp, m, in) ==
    LET inst   == cp.current_instruction
        writes == WritesOf(cp, in)
        trail  == WriteTrail(m, writes)
        added  == IF inst \in BranchInsts /\ in.taken THEN add_branch_cycles(in) ELSE 0
        sp1    == IF inst = "TXS" THEN in.x
                  ELSE (cp.sp - Pushes(inst) + Pops(inst)) % U8
    IN  IF inst = "None"
        THEN [cpu |-> cp, m |-> m, prog |-> "running", trail |-> << >>, added |-> 0]
        ELSE [cpu |-> [cp EXCEPT !.sp = sp1,
                                  !.current_cycles = @ + added,
                                  !.current_instruction = "None"],
              m |-> trail[Len(trail)].m,
              prog |-> IF inst = "JAM" THEN "exited"
                       ELSE IF \E k \in 1..Len(trail) : ~trail[k].ok THEN "panicked"
                       ELSE "running",
              trail |-> trail,
              added |-> added]

\* CPU6507::clock(); panic is n_bytes() on a table entry without a mode, or
\* the overflow check on `current_cycles -= 1`
CPU_clock(cp, m, in, checks) ==
    LET fetch == cp.current_cycles = 0
        f     == CPU_fetch_and_decode(cp, in)
        cpu1  == IF fetch THEN [f.cpu EXCEPT !.current_cycles = @ + f.new_cycles] ELSE cp
        quiet == [cpu |-> cpu1, m |-> m, prog |-> "running", fetched |-> fetch,
                  new_cycles |-> IF fetch THEN f.new_cycles ELSE 0,
                  executed |-> FALSE, trail |-> << >>, added |-> 0]
    IN  IF fetch /\ f.panic THEN [quiet EXCEPT !.prog = "panicked"]
        ELSE IF cpu1.current_cycles = U64_WRAPPED THEN quiet
        ELSE IF cpu1.current_cycles = 0
        THEN [quiet EXCEPT !.cpu.current_cycles = U64_WRAPPED,
                           !.prog = IF checks THEN "panicked" ELSE "running"]
        ELSE LET cpu2 == [cpu1 EXCEPT !.current_cycles = @ - 1]
             IN  IF cpu2.current_cycles = 0
                 THEN LET e == CPU_execute(cpu2, m, in)
                      IN  [quiet EXCEPT !.cpu = e.cpu, !.m = e.m, !.prog = e.prog,
                                        !.executed = TRUE, !.trail = e.trail,
                                        !.added = e.added]
                 ELSE [quiet EXCEPT !.cpu = cpu2]

\* u16 as i16 and u8 as i8
S16(n) == IF n >= 32768 THEN n - 65536 ELSE n
S8(n) == IF n >= 128 THEN n - 256 ELSE n

\* AddressingMode::Relative in get_data(): offset is the byte read at pc + 1;
\* panic is an overflow check failing on pc + n_bytes or on the i16 sum
Relative_get_data(pc, offset, checks) ==
    LET next_pc == pc + 2
        sum     == S16(next_pc % 65536) + S8(offset)
    IN  [addr |-> sum % 65536, next_pc |-> next_pc % 65536, page_crossed |-> FALSE,
         panic |-> checks /\ (next_pc > 65535 \/ sum > 32767 \/ sum < -32768)]

\* the conditions of bcc, bcs, beq, bmi, bne, bpl, bvc, bvs
BranchTaken(inst, f) ==
    CASE inst = "BCC" -> ~f.c
      [] inst = "BCS" -> f.c
      [] inst = "BEQ" -> f.z
      [] inst = "BMI" -> f.s
      [] inst = "BNE" -> ~f.z
      [] inst = "BPL" -> ~f.s
      [] inst = "BVC" -> ~f.v
      [] inst = "BVS" -> f.v
      [] OTHER -> FALSE

\* the input of a branch fetched at pc with flags f
BranchInput(op, pc, offset, f, checks) ==
    LET g == Relative_get_data(pc, offset, checks)
    IN  [NoInput EXCEPT !.op = op,
                        !.page_crossed = g.page_crossed,
                        !.taken = BranchTaken(Opcode(op).inst, f),
                        !.pages_differ = BitAnd(g.next_pc, 65280) # BitAnd(g.addr, 65280)]

\* CPU6507::step(): the cycles of fetch_and_decode() and those execute() adds
CPU_step(cp, m, in) ==
    LET f == CPU_fetch_and_decode(cp, in)
        e == CPU_execute(f.cpu, m, in)
    IN  [cpu |-> e.cpu, m |-> e.m, count |-> f.new_cycles + e.added,
         prog |-> IF f.panic THEN "panicked" ELSE e.prog]

(***************************************************************************)
(* main.rs: one iteration of the scanline closure's loop.                  *)
(***************************************************************************)
CLOCKS_PER_SCANLINE == 228

\* the loop body with the CPU clocked before the TIA
scanline_iteration_cpu_first(m, cp, cc, in, checks) ==
    LET rc == IF cc % 3 = 0 THEN RIOT_clock(m.riot, checks)
              ELSE [riot |-> m.riot, panic |-> FALSE]
        m0 == [m EXCEPT !.riot = rc.riot]
        run == ~cpu_halt(m.tia) /\ cc % 3 = 2
        k  == CPU_clock(cp, m0, in, checks)
        m1 == IF run THEN k.m ELSE m0
        tc == TIA_clock(m1.tia)
    IN  IF rc.panic
        THEN [m |-> m, cpu |-> cp, prog |-> "panicked", order |-> << "riot" >>,
              halt |-> FALSE, run |-> FALSE, before |-> m, k |-> << >>]
        ELSE [m |-> [m1 EXCEPT !.tia = tc.tia],
              cpu |-> IF run THEN k.cpu ELSE cp,
              prog |-> IF run THEN k.prog ELSE "running",
              order |-> (IF cc % 3 = 0 THEN << "riot" >> ELSE << >>)
                        \o (IF run THEN << "cpu" >> ELSE << >>) \o << "tia" >>,
              halt |-> cpu_halt(m.tia), run |-> run, before |-> m0,
              k |-> IF run THEN << k >> ELSE << >>]

\* the loop body: riot.clock() when c % 3 = 0, tia.clock(), then cpu.clock()
\* when the TIA does not halt the CPU and c % 3 = 2
scanline_iteration(m, cp, cc, in, checks) ==
    LET rc == IF cc % 3 = 0 THEN RIOT_clock(m.riot, checks)
              ELSE [riot |-> m.riot, panic |-> FALSE]
        tc == TIA_clock(m.tia)
        m1 == [m EXCEPT !.riot = rc.riot, !.tia = tc.tia]
        run == ~cpu_halt(tc.tia) /\ cc % 3 = 2
        k  == CPU_clock(cp, m1, in, checks)
    IN  IF rc.panic
        THEN [m |-> m, cpu |-> cp, prog |-> "panicked", order |-> << "riot" >>,
              halt |-> FALSE, run |-> FALSE, before |-> m, k |-> << >>]
        ELSE [m |-> IF run THEN k.m ELSE m1,
              cpu |-> IF run THEN k.cpu ELSE cp,
              prog |-> IF run THEN k.prog ELSE "running",
              order |-> (IF cc % 3 = 0 THEN << "riot" >> ELSE << >>) \o << "tia" >>
                        \o (IF run THEN << "cpu" >> ELSE << >>),
              halt |-> cpu_halt(tc.tia), run |-> run, before |-> m1,
              k |-> IF run THEN << k >> ELSE << >>]

(***************************************************************************)
(* The inputs of an iteration.  A profile P names the programs followed:   *)
(* the opcodes they execute, the addresses and bytes they store, the bytes *)
(* they push, the X they copy to SP and the values SP may take.            *)
(***************************************************************************)
SpAfter(cp, inst) == (cp.sp - Pushes(inst) + Pops(inst)) % U8

FetchInputs(cp, P) ==
    UNION { { [NoInput EXCEPT !.op = o, !.page_crossed = pc] :
                pc \in get_data_page_crossed(Opcode(o).mode) } :
            o \in { op \in P.ops : SpAfter(cp, Opcode(op).inst) \in P.sp_range } }

ExecuteInputs(cp, P) ==
    LET inst == cp.current_instruction
    IN  CASE inst \in StoreInsts \/ (inst \in ShiftInsts /\ cp.current_addr_mode # "Accumulator") ->
               { [NoInput EXCEPT !.addr = a, !.val = v] : a \in P.addrs, v \in P.vals }
          [] Pushes(inst) > 0 -> { [NoInput EXCEPT !.pushed = pv] : pv \in P.pushed }
          [] inst \in BranchInsts ->
               { NoInput, [NoInput EXCEPT !.taken = TRUE],
                 [NoInput EXCEPT !.taken = TRUE, !.pages_differ = TRUE] }
          [] inst = "TXS" -> { [NoInput EXCEPT !.x = x] : x \in P.sps }
          [] OTHER -> { NoInput }

IterationInputs(t, cp, cc, P) ==
    IF cpu_halt(TIA_clock(t).tia) \/ cc % 3 # 2 THEN { NoInput }
    ELSE IF cp.current_cycles = 0 THEN FetchInputs(cp, P)
    ELSE IF cp.current_cycles = 1 THEN ExecuteInputs(cp, P)
    ELSE { NoInput }

\* main(): the devices as constructed, with the joystick and the console
\* switches released
main_riot ==
    RIOT_reset(RIOT_select(RIOT_right(RIOT_left(RIOT_down(RIOT_up(RIOT_new,
        FALSE), FALSE), FALSE), FALSE), FALSE), FALSE)

NoAccess == [op |-> "none", a |-> 0, v |-> 0, val |-> 0, bus_addr |-> 0,
             call |-> [dev |-> "none", addr |-> 0]]

NoTick == [c |-> 0, order |-> << >>, halt |-> FALSE, riot_gap |-> 3, cpu_gap |-> 3,
           vsync_clear_kept |-> TRUE]
NoWsync == [active |-> FALSE, i |-> 0, n |-> 0, rewritten |-> FALSE]
NoWsyncDone == [valid |-> FALSE, i |-> 0, n |-> 0, rewritten |-> FALSE,
                cpu |-> FALSE]
NoVsync == [active |-> FALSE, n |-> 0]
NoIns == [valid |-> FALSE, inst |-> "None", charged |-> 0, clocks |-> 0, tia |-> 0,
          riot |-> 0, halted |-> FALSE]

\* the last timer write (byte k, interval), the RIOT clocks since, whether
\* INTIM has gone from 0 to 0xFF since, and the RIOT clocks since that
NoTimer == [set |-> FALSE, k |-> 0, interval |-> 0, n |-> 0, under |-> FALSE, since |-> 0]
NoBranch ==
    [kind |-> "none", op |-> 234, pc |-> 0, offset |-> 0, flags |-> 36, clocks |-> 0,
     done |-> FALSE, count |-> 0, n |-> 0]
NoStackOp == [op |-> "none", val |-> 0, pushed |-> << >>, n |-> 0]
NoRiotOp ==
    [op |-> "none", address |-> 0, pressed |-> FALSE, val |-> 0, before |-> main_riot,
     held |-> {}]

\* register a of CPU6507::new, before any adc
NoAdc == [a |-> 0, op |-> "none", a0 |-> 0, val |-> 0, c0 |-> FALSE, d0 |-> FALSE,
          c |-> FALSE, n |-> 0]

\* main() with a cartridge file of one of the given sizes, stopped before
\* cpu.reset() (at = "reset") or after it (at = "running")
InitMachineOf(sizes, at) ==
    /\ riot = main_riot
    /\ \E len \in sizes : rom = [len |-> len, patch |-> <<>>]
    /\ prog = at
    /\ acc = NoAccess
    /\ bus_ops = 0
    /\ cpu = IF at = "reset" THEN CPU_new ELSE CPU_reset(CPU_new)
    /\ scan_c = 0
    /\ tick = NoTick
    /\ gap = [riot |-> 3, cpu |-> 3]
    /\ ws = NoWsync
    /\ ws_done = NoWsyncDone
    /\ vs = NoVsync
    /\ ins = NoIns
    /\ done = NoIns
    /\ tm = NoTimer
    /\ rd = NoRiotOp
    /\ stk = NoStackOp
    /\ br = NoBranch
    /\ alu = NoAdc
    /\ sr = IF at = "reset" THEN CPU_new_flags ELSE CPU_set_flags(36)

\* main() with a 4 KiB cartridge, after construction
InitMachine == InitMachineOf({ 4096 }, "running")

\* the builds: with and without overflow checks
Builds == BOOLEAN
ReleaseBuild == { FALSE }

Machine == [tia |-> tia, riot |-> riot, rom |-> rom]

(***************************************************************************)
(* The CPU's bus accesses one at a time.                                   *)
(***************************************************************************)
\* bytes written: bit 1, the bit VSYNC and VBLANK test, clear and set
WriteVals == { 0, 2 }

\* 16-bit addresses: a cell or register of every device, under every
\* combination of the address lines the decoder tests or ignores
BusLows == { 0, 2, 128, 129, 150, 255 }
BusHighs == { 0, 256, 512, 3072, 4096, 8192, 61952 }
BusAddrs == { h + l : h \in BusHighs, l \in BusLows }

BusRead ==
    /\ prog = "running"
    /\ bus_ops < MaxBusOps
    /\ \E a \in BusAddrs : \E r \in { CPU_read(Machine, a) } :
              /\ tia' = r.m.tia
              /\ riot' = r.m.riot
              /\ rom' = r.m.rom
              /\ prog' = IF r.ok THEN "running" ELSE "panicked"
              /\ acc' = [op |-> "read", a |-> a, v |-> 0, val |-> r.val,
                         bus_addr |-> BitAnd(a, 8191), call |-> r.call]
    /\ bus_ops' = bus_ops + 1
    /\ UNCHANGED <<ctr_vars, tia_ticks, tia_eof, sched_vars, riot_obs, cpu_obs, gfx_obs, tia_obs>>

BusWrite ==
    /\ prog = "running"
    /\ bus_ops < MaxBusOps
    /\ \E a \in BusAddrs, v \in WriteVals : \E r \in { CPU_write(Machine, a, v) } :
              /\ tia' = r.m.tia
              /\ riot' = r.m.riot
              /\ rom' = r.m.rom
              /\ prog' = IF r.ok THEN "running" ELSE "panicked"
              /\ acc' = [op |-> "write", a |-> a, v |-> v, val |-> v,
                         bus_addr |-> BitAnd(a, 8191), call |-> r.call]
    /\ bus_ops' = bus_ops + 1
    /\ UNCHANGED <<ctr_vars, tia_ticks, tia_eof, sched_vars, riot_obs, cpu_obs, gfx_obs, tia_obs>>

NextBus == BusRead \/ BusWrite

InitBus ==
    InitCounterOf({<<40, 39>>}) /\ InitTIA /\ InitMachine
    /\ overflow_checks \in ReleaseBuild

SpecBus == InitBus /\ [][NextBus]_vars

(***************************************************************************)
(* The RIOT timer: interval register writes, RIOT clocks, reads of INTIM   *)
(* and INSTAT.                                                             *)
(***************************************************************************)
\* the bytes written to an interval register
TimerBytes == { 0, 1, 2, 3, 255 }
\* TIM1T, TIM8T, TIM64T, T1024T and the interval each selects
TimerRegs == { <<660, 1>>, <<661, 8>>, <<662, 64>>, <<663, 1024>> }

TimerWrite ==
    /\ prog = "running"
    /\ \E k \in TimerBytes, t \in TimerRegs :
          /\ riot' = RIOT_write(riot, t[1], k)
          /\ tm' = [set |-> TRUE, k |-> k, interval |-> t[2], n |-> 0,
                    under |-> (k = 0 /\ riot'.intim = 255), since |-> 0]
    /\ rd' = NoRiotOp
    /\ UNCHANGED <<ctr_vars, tia_vars, rom, prog, bus_vars, sched_vars, cpu_obs, gfx_obs, tia_obs>>

TimerClock ==
    /\ prog = "running"
    /\ tm.n < MaxTimerClocks
    /\ \E r \in { RIOT_clock(riot, overflow_checks) } :
          /\ riot' = r.riot
          /\ prog' = IF r.panic THEN "panicked" ELSE "running"
    /\ tm' = IF tm.set
             THEN [tm EXCEPT !.n = @ + 1,
                             !.under = @ \/ (riot.intim = 0 /\ riot'.intim = 255),
                             !.since = IF tm.under THEN @ + 1 ELSE 0]
             ELSE tm
    /\ rd' = NoRiotOp
    /\ UNCHANGED <<ctr_vars, tia_vars, rom, bus_vars, cpu, scan_c, overflow_checks,
                   tick, gap, ws, ws_done, vs, ins, done, cpu_obs, gfx_obs, tia_obs>>

\* INTIM and INSTAT
TimerReadAddrs == { 644, 645 }

TimerRead ==
    /\ prog = "running"
    /\ \E a \in TimerReadAddrs : \E r \in { RIOT_read(riot, a) } :
          /\ riot' = r.riot
          /\ rd' = [op |-> "read", address |-> a, pressed |-> FALSE, val |-> r.val,
                    before |-> riot, held |-> {}]
    /\ UNCHANGED <<ctr_vars, tia_vars, rom, prog, bus_vars, sched_vars, tm, cpu_obs, gfx_obs, tia_obs>>

NextTimer == TimerWrite \/ TimerClock \/ TimerRead

InitTimer ==
    InitCounterOf({<<40, 39>>}) /\ InitTIA /\ InitMachine
    /\ overflow_checks \in Builds

SpecTimer == InitTimer /\ [][NextTimer]_vars

(***************************************************************************)
(* SpecPorts: the two ports of the RIOT.  The program writes the data      *)
(* direction registers and reads SWCHA and SWCHB; the front end moves the  *)
(* joystick and the console switches.  rd records the last operation, the  *)
(* RIOT before it and the set of joystick directions being held.           *)
(***************************************************************************)
DDRBytes == { 0, 16, 165, 255 }
\* SWACNT, SWBCNT
DDRRegs == { 641, 643 }

PortWrite ==
    /\ prog = "running"
    /\ \E a \in DDRRegs : \E v \in DDRBytes :
          /\ riot' = RIOT_write(riot, a, v)
          /\ rd' = [op |-> "write", address |-> a, pressed |-> FALSE, val |-> v,
                    before |-> riot, held |-> rd.held]
    /\ UNCHANGED <<ctr_vars, tia_vars, rom, prog, bus_vars, sched_vars, tm, cpu_obs, gfx_obs, tia_obs>>

\* SWCHA, SWCHB
PortReadAddrs == { 640, 642 }

PortRead ==
    /\ prog = "running"
    /\ \E a \in PortReadAddrs : \E r \in { RIOT_read(riot, a) } :
          /\ riot' = r.riot
          /\ rd' = [op |-> "read", address |-> a, pressed |-> FALSE, val |-> r.val,
                    before |-> riot, held |-> rd.held]
    /\ UNCHANGED <<ctr_vars, tia_vars, rom, prog, bus_vars, sched_vars, tm, cpu_obs, gfx_obs, tia_obs>>

Directions == { "up", "down", "left", "right" }

Joystick ==
    /\ prog = "running"
    /\ \E dir \in Directions : \E pressed \in BOOLEAN :
          /\ riot' = CASE dir = "up"    -> RIOT_up(riot, pressed)
                        [] dir = "down"  -> RIOT_down(riot, pressed)
                        [] dir = "left"  -> RIOT_left(riot, pressed)
                        [] dir = "right" -> RIOT_right(riot, pressed)
          /\ rd' = [op |-> dir, address |-> 0, pressed |-> pressed, val |-> 0,
                    before |-> riot,
                    held |-> IF pressed THEN rd.held \cup {dir} ELSE rd.held \ {dir}]
    /\ UNCHANGED <<ctr_vars, tia_vars, rom, prog, bus_vars, sched_vars, tm, cpu_obs, gfx_obs, tia_obs>>

Switches == { "reset", "select", "color" }

Console ==
    /\ prog = "running"
    /\ \E sw \in Switches : \E pressed \in BOOLEAN :
          /\ sw = "color" => pressed
          /\ riot' = CASE sw = "reset"  -> RIOT_reset(riot, pressed)
                        [] sw = "select" -> RIOT_select(riot, pressed)
                        [] sw = "color"  -> RIOT_color(riot)
          /\ rd' = [op |-> sw, address |-> 0, pressed |-> pressed, val |-> 0,
                    before |-> riot, held |-> rd.held]
    /\ UNCHANGED <<ctr_vars, tia_vars, rom, prog, bus_vars, sched_vars, tm, cpu_obs, gfx_obs, tia_obs>>

NextPorts == PortWrite \/ PortRead \/ Joystick \/ Console

InitPorts ==
    InitCounterOf({<<40, 39>>}) /\ InitTIA /\ InitMachine /\ overflow_checks \in ReleaseBuild

SpecPorts == InitPorts /\ [][NextPorts]_vars

(***************************************************************************)
(* SpecStack: stack_push8 and stack_pop8 called on the machine after       *)
(* reset, in any order in which no pop exceeds the pushes before it.  stk  *)
(* records the last call, its byte and the unmatched pushes before it.     *)
(***************************************************************************)
MaxStackDepth == 130

\* the bytes pushed at each depth: two bytes to choose from at the bottom of
\* the stack and around the end of the RAM, one byte in between
FreeDepths == { 0, 1, 127, 128 }
PushBytes(depth) == IF depth \in FreeDepths THEN { 1, 254 } ELSE { depth }

\* the unmatched pushes after the last call
StackNow ==
    CASE stk.op = "push" -> Append(stk.pushed, stk.val)
      [] stk.op = "pop"  -> SubSeq(stk.pushed, 1, Len(stk.pushed) - 1)
      [] OTHER           -> stk.pushed

StackPush ==
    /\ prog = "running"
    /\ Len(StackNow) < MaxStackDepth
    /\ \E v \in PushBytes(Len(StackNow)) : \E r \in { CPU_stack_push8(cpu, Machine, v) } :
          /\ cpu' = r.cpu
          /\ tia' = r.m.tia
          /\ riot' = r.m.riot
          /\ rom' = r.m.rom
          /\ stk' = [op |-> "push", val |-> v, pushed |-> StackNow, n |-> 0]
    /\ UNCHANGED <<ctr_vars, tia_ticks, tia_eof, prog, bus_vars, scan_c, overflow_checks,
                   tick, gap, ws, ws_done, vs, ins, done, riot_obs, sr, br, alu, gfx_obs, tia_obs>>

StackPop ==
    /\ prog = "running"
    /\ Len(StackNow) > 0
    /\ \E r \in { CPU_stack_pop8(cpu, Machine) } :
          /\ cpu' = r.cpu
          /\ tia' = r.m.tia
          /\ riot' = r.m.riot
          /\ rom' = r.m.rom
          /\ stk' = [op |-> "pop", val |-> r.val, pushed |-> StackNow, n |-> 0]
    /\ UNCHANGED <<ctr_vars, tia_ticks, tia_eof, prog, bus_vars, scan_c, overflow_checks,
                   tick, gap, ws, ws_done, vs, ins, done, riot_obs, sr, br, alu, gfx_obs, tia_obs>>

NextStack == StackPush \/ StackPop

InitStack ==
    InitCounterOf({<<40, 39>>}) /\ InitTIA /\ InitMachine /\ overflow_checks \in ReleaseBuild

SpecStack == InitStack /\ [][NextStack]_vars

(***************************************************************************)
(* main() from the loading of the cartridge: cpu.reset() reads the reset   *)
(* vector through the bus, then the program's accesses follow.             *)
(***************************************************************************)
\* the sizes of a cartridge file
CartSizes == { 2048, 4096 }

\* cpu.reset(): the reads of 0xFFFC and 0xFFFD
MainReset ==
    /\ prog = "reset"
    /\ \E r1 \in { CPU_read(Machine, 65532) } :
       \E r2 \in { CPU_read(r1.m, 65533) } :
          /\ tia' = r2.m.tia
          /\ riot' = r2.m.riot
          /\ rom' = r2.m.rom
          /\ prog' = IF r1.ok /\ r2.ok THEN "running" ELSE "panicked"
          /\ acc' = IF r1.ok
                    THEN [op |-> "read", a |-> 65533, v |-> 0, val |-> r2.val,
                          bus_addr |-> BitAnd(65533, 8191), call |-> r2.call]
                    ELSE [op |-> "read", a |-> 65532, v |-> 0, val |-> r1.val,
                          bus_addr |-> BitAnd(65532, 8191), call |-> r1.call]
    /\ cpu' = CPU_reset(cpu)
    /\ sr' = CPU_set_flags(36)
    /\ stk' = [op |-> "reset", val |-> 36, pushed |-> << >>, n |-> 0]
    /\ UNCHANGED <<ctr_vars, tia_ticks, tia_eof, bus_ops, scan_c, overflow_checks,
                   tick, gap, ws, ws_done, vs, ins, done, riot_obs, br, alu, gfx_obs, tia_obs>>

NextCart == MainReset \/ BusRead \/ BusWrite

InitCart ==
    InitCounterOf({<<40, 39>>}) /\ InitTIA /\ InitMachineOf(CartSizes, "reset")
    /\ overflow_checks \in ReleaseBuild

SpecCart == InitCart /\ [][NextCart]_vars

(***************************************************************************)
(* SpecFlags: the status flags from construction on.  main() resets the    *)
(* CPU once; the program then runs instructions that assign single flags   *)
(* (CLC, SEC, the arithmetic and load instructions ...), push bytes (PHA,  *)
(* PHP, BRK) and pop them into the flags (PLP, RTI).  stk records the last *)
(* of them, the flag byte it pushed or popped and the number of            *)
(* instructions since the reset.  The program pops nothing it has not      *)
(* pushed.                                                                 *)
(***************************************************************************)
MaxFlagSteps == 4

\* the flags that instructions assign one by one
FlagNames == { "c", "z", "i", "d", "v", "s" }
\* the accumulator bytes pushed by PHA
FlagBytes == { 0, 48, 207, 255 }
\* the return addresses pushed by BRK
BrkAddrs == { 61441 }

FlagDepth == STACK_INIT - cpu.sp

FlagStep(r, name) ==
    /\ cpu' = r.cpu
    /\ sr' = r.sr
    /\ tia' = r.m.tia
    /\ riot' = r.m.riot
    /\ rom' = r.m.rom
    /\ prog' = IF r.ok THEN "running" ELSE "panicked"
    /\ stk' = [op |-> name, val |-> r.val, pushed |-> << >>, n |-> stk.n + 1]
    /\ UNCHANGED <<ctr_vars, tia_ticks, tia_eof, bus_vars, scan_c, overflow_checks,
                   tick, gap, ws, ws_done, vs, ins, done, riot_obs, br, alu, gfx_obs, tia_obs>>

FlagAssign ==
    /\ prog = "running" /\ stk.n < MaxFlagSteps
    /\ \E name \in FlagNames : \E flag \in BOOLEAN :
          /\ sr[name] # flag
          /\ \E r \in { [cpu |-> cpu, sr |-> [sr EXCEPT ![name] = flag], m |-> Machine,
                        val |-> 0, ok |-> TRUE] } : FlagStep(r, "assign")

FlagPha ==
    /\ prog = "running" /\ stk.n < MaxFlagSteps
    /\ \E a \in FlagBytes : \E r \in { CPU_pha(cpu, sr, Machine, a) } : FlagStep(r, "pha")

FlagPhp ==
    /\ prog = "running" /\ stk.n < MaxFlagSteps
    /\ \E r \in { CPU_php(cpu, sr, Machine) } : FlagStep(r, "php")

FlagPlp ==
    /\ prog = "running" /\ stk.n < MaxFlagSteps /\ FlagDepth >= 1
    /\ \E r \in { CPU_plp(cpu, sr, Machine) } : FlagStep(r, "plp")

FlagRti ==
    /\ prog = "running" /\ stk.n < MaxFlagSteps /\ FlagDepth >= 3
    /\ \E r \in { CPU_rti(cpu, sr, Machine) } : FlagStep(r, "rti")

FlagBrk ==
    /\ prog = "running" /\ stk.n < MaxFlagSteps
    /\ \E pc \in BrkAddrs : \E r \in { CPU_brk(cpu, sr, Machine, pc) } : FlagStep(r, "brk")

NextFlags ==
    MainReset \/ FlagAssign \/ FlagPha \/ FlagPhp \/ FlagPlp \/ FlagRti \/ FlagBrk

InitFlags ==
    /\ InitCounterOf({<<40, 39>>}) /\ InitTIA /\ InitMachineOf({ 4096 }, "reset")
    /\ overflow_checks \in ReleaseBuild

SpecFlags == InitFlags /\ [][NextFlags]_vars

(***************************************************************************)
(* SpecBranch: branch instructions run by clock() calls and by step().     *)
(* The opcode, the program counter, the offset byte and the flags are      *)
(* inputs of each instruction; br keeps them with the number of clock()    *)
(* calls made for the instruction and whether it is complete (the next     *)
(* clock() fetches) and counts the instructions fetched.                   *)
(***************************************************************************)
MaxBranches == 1

\* BPL, BMI, BVC, BVS, BCC, BCS, BNE, BEQ
BranchOpcodes == { 16, 48, 80, 112, 144, 176, 208, 240 }
\* 0xF000, 0xF0FD, 0x7FFD, 0x7FFE, 0xFFFE
BranchPCs == { 61440, 61693, 32765, 32766, 65534 }
\* +1, +127, -128, -2
BranchOffsets == { 1, 127, 128, 254 }
\* no flag of C, Z, V, S set (the flags after reset), all four set
BranchFlags == { 36, 231 }

BranchFetch(kind) ==
    /\ prog = "running"
    /\ cpu.current_cycles = 0
    /\ br.n < MaxBranches
    /\ \E op \in BranchOpcodes : \E pc \in BranchPCs :
       \E offset \in BranchOffsets : \E w \in BranchFlags :
       \E in \in { BranchInput(op, pc, offset, CPU_set_flags(w), overflow_checks) } :
       \E r \in { IF kind = "step" THEN CPU_step(cpu, Machine, in)
                   ELSE CPU_clock(cpu, Machine, in, overflow_checks) } :
          /\ sr' = CPU_set_flags(w)
          /\ IF Relative_get_data(pc, offset, overflow_checks).panic
             THEN prog' = "panicked" /\ cpu' = cpu
             ELSE prog' = r.prog /\ cpu' = r.cpu
          /\ br' = [kind |-> kind, op |-> op, pc |-> pc, offset |-> offset, flags |-> w,
                    clocks |-> IF kind = "clock" THEN 1 ELSE 0,
                    done |-> cpu'.current_cycles = 0,
                    count |-> IF kind = "step" THEN r.count ELSE 0,
                    n |-> br.n + 1]
    /\ UNCHANGED <<ctr_vars, tia_vars, mem_vars, bus_vars, scan_c, overflow_checks,
                   tick, gap, ws, ws_done, vs, ins, done, riot_obs, stk, alu, gfx_obs, tia_obs>>

BranchFetchClock == BranchFetch("clock")
BranchStep == BranchFetch("step")

BranchClock ==
    /\ prog = "running"
    /\ cpu.current_cycles # 0
    /\ \E in \in { BranchInput(br.op, br.pc, br.offset, sr, overflow_checks) } :
       \E r \in { CPU_clock(cpu, Machine, in, overflow_checks) } :
          /\ prog' = r.prog
          /\ cpu' = r.cpu
          /\ br' = [br EXCEPT !.clocks = @ + 1, !.done = r.cpu.current_cycles = 0]
    /\ UNCHANGED <<ctr_vars, tia_vars, mem_vars, bus_vars, scan_c, overflow_checks,
                   tick, gap, ws, ws_done, vs, ins, done, riot_obs, stk, sr, alu, gfx_obs, tia_obs>>

NextBranch == BranchFetchClock \/ BranchStep \/ BranchClock

InitBranch ==
    InitCounterOf({<<40, 39>>}) /\ InitTIA /\ InitMachine /\ overflow_checks \in Builds

SpecBranch == InitBranch /\ [][NextBranch]_vars

(***************************************************************************)
(* SpecAdc: the ADC instruction on register a, between the instructions    *)
(* SEC, CLC, SED and CLD that set its carry input and its mode.  alu holds *)
(* register a, and for the last adc the accumulator, operand, carry and    *)
(* mode it started from and the carry flag it left.                        *)
(***************************************************************************)
MaxAdcOps == 3

\* operands and starting accumulators: BCD bytes whose sums carry in neither,
\* one or both digits, and one byte that is not BCD
AdcBytes == { 1, 9, 80, 153, 10 }

CPU_clc(f) == [f EXCEPT !.c = FALSE]
CPU_cld(f) == [f EXCEPT !.d = FALSE]
CPU_sec(f) == [f EXCEPT !.c = TRUE]
CPU_sed(f) == [f EXCEPT !.d = TRUE]

\* adc with the operand already read: the accumulator and the flags after it
CPU_adc(f, a, val) ==
    LET lo0 == (a % 16) + (val % 16) + B2N(f.c)
        hi0 == BitAnd(a, 240) + BitAnd(val, 240)
        lo == IF lo0 > 9 THEN lo0 + 6 ELSE lo0
        hi1 == IF lo0 > 9 THEN hi0 + 16 ELSE hi0
        hi == IF hi1 > 144 THEN hi1 + 96 ELSE hi1
        n == a + val + B2N(f.c)
    IN  IF f.d
        THEN [a |-> BitOr(lo % 16, BitAnd(hi % 256, 240)),
              f |-> [f EXCEPT !.s = Bit(hi1, 7) = 1,
                              !.z = (lo + hi1) % 256 # 0,
                              !.v = Bit(a, 7) = Bit(val, 7) /\ Bit(a, 7) # Bit(hi1, 7)]]
        ELSE [a |-> n % 256,
              f |-> [f EXCEPT !.s = Bit(n, 7) = 1,
                              !.z = n % 256 = 0,
                              !.c = n > 255,
                              !.v = Bit(a, 7) = Bit(val, 7) /\ Bit(a, 7) # Bit(n, 7)]]

AdcUnchanged ==
    UNCHANGED <<ctr_vars, tia_vars, mem_vars, prog, bus_vars, sched_vars, riot_obs, stk, br,
                gfx_obs, tia_obs>>

AdcFlag(g) ==
    /\ prog = "running"
    /\ alu.n < MaxAdcOps
    /\ sr' = g
    /\ sr' # sr
    /\ alu' = [alu EXCEPT !.op = "flag", !.n = @ + 1]
    /\ AdcUnchanged

AdcClc == AdcFlag(CPU_clc(sr))
AdcCld == AdcFlag(CPU_cld(sr))
AdcSec == AdcFlag(CPU_sec(sr))
AdcSed == AdcFlag(CPU_sed(sr))

AdcAdd ==
    /\ prog = "running"
    /\ alu.n < MaxAdcOps
    /\ \E val \in AdcBytes : \E r \in { CPU_adc(sr, alu.a, val) } :
          /\ sr' = r.f
          /\ alu' = [a |-> r.a, op |-> "adc", a0 |-> alu.a, val |-> val, c0 |-> sr.c,
                     d0 |-> sr.d, c |-> r.f.c, n |-> alu.n + 1]
    /\ AdcUnchanged

\* lda with the operand already read: update_sz on the loaded byte
CPU_lda(f, val) == [a |-> val, f |-> [f EXCEPT !.s = Bit(val, 7) = 1, !.z = val = 0]]

AdcLda ==
    /\ prog = "running"
    /\ alu.n < MaxAdcOps
    /\ \E val \in AdcBytes : \E r \in { CPU_lda(sr, val) } :
          /\ sr' = r.f
          /\ alu' = [alu EXCEPT !.a = r.a, !.op = "lda", !.n = @ + 1]
    /\ AdcUnchanged

NextAdc == AdcClc \/ AdcCld \/ AdcSec \/ AdcSed \/ AdcLda \/ AdcAdd

InitAdc ==
    InitCounterOf({<<40, 39>>}) /\ InitTIA /\ InitMachine /\ overflow_checks \in ReleaseBuild

SpecAdc == InitAdc /\ [][NextAdc]_vars

(***************************************************************************)
(* SpecPixel: TIA::clock() drawing one visible pixel.  The graphics state  *)
(* the program has set up at that pixel is the input of the step.          *)
(***************************************************************************)
Colup0Bytes == { 0, 2 }
Colup1Bytes == { 4 }
ColupfBytes == { 8 }
ColubkBytes == { 0, 6 }

\* set_control: score mode, which colours the playfield like the players,
\* is off while the priority flag is set
PlayfieldSources(priority) ==
    IF priority THEN { "none", "colupf" } ELSE { "none", "colupf", "colup0", "colup1" }

Graphics ==
    { g \in [colup0 : Colup0Bytes, colup1 : Colup1Bytes, colupf : ColupfBytes,
             colubk : ColubkBytes, p0 : BOOLEAN, m0 : BOOLEAN, p1 : BOOLEAN,
             m1 : BOOLEAN, bl : BOOLEAN, pf : PlayfieldSources(FALSE),
             priority : BOOLEAN] :
        g.pf \in PlayfieldSources(g.priority) }

DrawPixel ==
    /\ \E g \in Graphics : px' = [g |-> g, drawn |-> TRUE, color |-> get_pixel_color(g)]
    /\ UNCHANGED <<ctr_vars, tia_vars, mem_vars, prog, bus_vars, sched_vars, riot_obs,
                   cpu_obs, pfs, line, tia_obs>>

InitPixel ==
    InitCounterOf({<<40, 39>>}) /\ InitTIA /\ InitMachine /\ overflow_checks \in ReleaseBuild

SpecPixel == InitPixel /\ [][DrawPixel]_vars

(***************************************************************************)
(* SpecPlayfield: the playfield over the scanlines of a frame.  The        *)
(* program writes PF0, PF1, PF2 and CTRLPF during horizontal blank; on     *)
(* each of the visible dots of the scanline the TIA clocks the playfield   *)
(* and takes get_color() for the dot.                                      *)
(***************************************************************************)
VISIBLE_DOTS == 160

Pf0Bytes == { 0, 16, 128 }
Pf1Bytes == { 0, 1, 16, 128 }
Pf2Bytes == { 0, 1, 128 }
\* repeat, mirror, score mode, mirror with priority
CtrlpfBytes == { 0, 1, 2, 5 }
\* PF0, PF1, PF2, CTRLPF
PlayfieldRegs == { 13, 14, 15, 10 }

PlayfieldWrite ==
    /\ line = << >>
    /\ \E a \in PlayfieldRegs :
          \/ a = 13 /\ \E v \in Pf0Bytes : pfs' = Playfield_set_pf0(pfs, v)
          \/ a = 14 /\ \E v \in Pf1Bytes : pfs' = Playfield_set_pf1(pfs, v)
          \/ a = 15 /\ \E v \in Pf2Bytes : pfs' = Playfield_set_pf2(pfs, v)
          \/ a = 10 /\ \E v \in CtrlpfBytes : pfs' = Playfield_set_control(pfs, v)
    /\ UNCHANGED <<ctr_vars, tia_vars, mem_vars, prog, bus_vars, sched_vars, riot_obs,
                   cpu_obs, px, line, tia_obs>>

PlayfieldDot ==
    /\ Len(line) < VISIBLE_DOTS
    /\ \E q \in { Playfield_clock(pfs) } :
          /\ pfs' = q
          /\ line' = Append(line, Playfield_get_graphic(q))
    /\ UNCHANGED <<ctr_vars, tia_vars, mem_vars, prog, bus_vars, sched_vars, riot_obs,
                   cpu_obs, px, tia_obs>>

PlayfieldHblank ==
    /\ Len(line) = VISIBLE_DOTS
    /\ line' = << >>
    /\ UNCHANGED <<ctr_vars, tia_vars, mem_vars, prog, bus_vars, sched_vars, riot_obs,
                   cpu_obs, px, pfs, tia_obs>>

NextPlayfield == PlayfieldWrite \/ PlayfieldDot \/ PlayfieldHblank

InitPlayfield ==
    InitCounterOf({<<40, 39>>}) /\ InitTIA /\ InitMachine /\ overflow_checks \in ReleaseBuild

SpecPlayfield == InitPlayfield /\ [][NextPlayfield]_vars

(***************************************************************************)
(* SpecRender: a scanline of playfield over background.  The program       *)
(* writes the colour and playfield registers during horizontal blank; no   *)
(* player, missile or ball is drawn, so the colour of a dot is the         *)
(* playfield's get_color(), or COLUBK where that is None.                  *)
(***************************************************************************)
\* COLUPF (bit 0 is not stored), COLUBK, CTRLPF, PF0, PF1, PF2
RenderBytes(a) ==
    CASE a = 8  -> { 14, 15 }
      [] a = 9  -> { 0, 2 }
      [] a = 10 -> { 0, 1 }
      [] a = 13 -> { 0, 16, 32 }
      [] a = 14 -> { 0, 128 }
      [] a = 15 -> { 0, 1 }
RenderRegs == { 8, 9, 10, 13, 14, 15 }

RenderWrite ==
    /\ line = << >>
    /\ \E a \in RenderRegs : \E v \in RenderBytes(a) :
          /\ pfs' = TIA_write_playfield(pfs, a, v)
          /\ pfs' # pfs
    /\ UNCHANGED <<ctr_vars, tia_vars, mem_vars, prog, bus_vars, sched_vars, riot_obs,
                   cpu_obs, px, line, tia_obs>>

NextRender == RenderWrite \/ PlayfieldDot \/ PlayfieldHblank

InitRender ==
    InitCounterOf({<<40, 39>>}) /\ InitTIA /\ InitMachine /\ overflow_checks \in ReleaseBuild

SpecRender == InitRender /\ [][NextRender]_vars

(***************************************************************************)
(* SpecObject: a Ball, a Missile or a Player on its own, under the calls   *)
(* the TIA makes on it: the register setters, reset(), clock() on a        *)
(* visible dot, start_hmove() and apply_hmove().                           *)
(***************************************************************************)
\* graphic_bit_copies_written counts on without end once it has passed the
\* number of copies; it is followed up to here
MaxCopiesWritten == 9
\* ticks of the graphic circuit counted after an arming: the 4 or 5 of the
\* delay, the 8 of the widest draw and two more
MaxScanTicks == 15

ObjectKinds == { "ball", "missile", "player" }
\* the ball's size from CTRLPF; the missile's and the player's NUSIZ: none
\* written yet, one copy, the player's double size
NusizOf(kind) ==
    CASE kind = "ball"    -> { 1, 2, 8 }
      [] kind = "missile" -> { 0, 1 }
      [] kind = "player"  -> { 0, 5 }
\* GRPx bytes: every bit set, and 0xB1, which reads differently from its two
\* ends
GraphicBytes == { 255, 177 }

\* set_enabled(), set_graphic(), set_nusiz(); hmove_offset stays as
\* constructed, 8 ticks of motion
\* the state in which the three arming branches leave the scan counter
Armed(o) ==
    IF o.kind = "player" THEN o.graphic_delay = INIT_DELAY(o.kind) /\ ~o.graphic_draw
    ELSE o.graphic_bit_idx = Some(-1 * INIT_DELAY(o.kind))

\* the draw that starts when o is armed
ScanArm(o) ==
    [armed |-> TRUE, t |-> 0, steady |-> TRUE,
     clear |-> IF o.kind = "player" THEN o.graphic_bit_idx = 0 ELSE ~Sprite_get_color(o)]

\* one more tick_graphic_circuit() call; a draw is followed for MaxScanTicks
\* ticks
ScanTick(s) ==
    IF s.armed THEN (IF s.t + 1 > MaxScanTicks THEN NoScan ELSE [s EXCEPT !.t = @ + 1])
    ELSE s

ObjectFrame ==
    UNCHANGED <<ctr_vars, tia_vars, mem_vars, prog, bus_vars, sched_vars, riot_obs,
                cpu_obs, gfx_obs, gfx, beam, fl>>

ObjectSet ==
    /\ \/ /\ obj.kind \in { "ball", "missile" }
          /\ \E v \in BOOLEAN : obj' = [obj EXCEPT !.enabled = v]
       \/ /\ obj.kind = "player"
          /\ \E v \in GraphicBytes : obj' = [obj EXCEPT !.graphic = v]
       \/ \E v \in NusizOf(obj.kind) : obj' = [obj EXCEPT !.nusiz = v]
    /\ obj' # obj
    /\ scan' = [scan EXCEPT !.steady = FALSE]
    /\ ObjectFrame

\* reset(): the counter is put at 39, which arms the scan counter
ObjectReset ==
    /\ obj.graphic_bit_copies_written < MaxCopiesWritten
    /\ obj' = Sprite_reset(obj)
    /\ scan' = IF Armed(obj') THEN ScanArm(obj) ELSE scan
    /\ ObjectFrame

\* clock(): a tick of the graphic circuit, then the counter, which may arm
ObjectClock ==
    /\ obj.graphic_bit_copies_written < MaxCopiesWritten
    /\ obj' = Sprite_clock(obj)
    /\ scan' = IF Armed(obj') THEN ScanArm(tick_graphic_circuit(obj)) ELSE ScanTick(scan)
    /\ ObjectFrame

\* start_hmove() and apply_hmove(): a draw is followed while reset(), clock()
\* and the setters are the only calls
ObjectStartHmove ==
    /\ obj.graphic_bit_copies_written < MaxCopiesWritten
    /\ obj' = Sprite_start_hmove(obj)
    /\ scan' = NoScan
    /\ ObjectFrame

ObjectApplyHmove ==
    /\ obj.graphic_bit_copies_written < MaxCopiesWritten
    /\ obj' = Sprite_apply_hmove(obj)
    /\ scan' = NoScan
    /\ ObjectFrame

NextObject ==
    ObjectSet \/ ObjectReset \/ ObjectClock \/ ObjectStartHmove \/ ObjectApplyHmove

InitObject ==
    /\ InitCounterOf({<<40, 39>>}) /\ InitTIAOf({ new_ball, new_missile, new_player })
    /\ InitMachine /\ overflow_checks \in ReleaseBuild

SpecObject == InitObject /\ [][NextObject]_vars

(***************************************************************************)
(* The scheduler: main()'s loop, one iteration per step, with what an      *)
(* observer of the device calls would note down.                           *)
(***************************************************************************)
Min(a, b) == IF a < b THEN a ELSE b

\* the TIA clocks between calls of the same device, each call of the iteration
\* taken in its order
RECURSIVE CountCalls(_, _)
CountCalls(order, g) ==
    IF order = << >> THEN g
    ELSE CountCalls(Tail(order),
            CASE Head(order) = "riot" -> [g EXCEPT !.riot_gap = g.riot, !.riot = 0]
              [] Head(order) = "cpu"  -> [g EXCEPT !.cpu_gap = g.cpu, !.cpu = 0]
              [] OTHER -> [g EXCEPT !.riot = Min(@ + 1, 4), !.cpu = Min(@ + 1, 3)])

\* the writes of an iteration that reached WSYNC, and VSYNC with bit 1 set or
\* clear, as positions in the trail of the CPU's writes
WsyncWrites(trail) ==
    { j \in 2..Len(trail) : trail[j].call = [dev |-> "tia", addr |-> 2] }
VsyncWrites(trail, set) ==
    { j \in 2..Len(trail) : /\ trail[j].call = [dev |-> "tia", addr |-> 0]
                            /\ (BitAnd(trail[j].val, 2) # 0) = set }
First(S) == CHOOSE j \in S : \A k \in S : j <= k

SchedIteration(P) ==
    /\ prog = "running"
    /\ tia_ticks < MaxSchedTicks
    /\ \E in \in IterationInputs(tia, cpu, scan_c, P) :
       \E r \in { scanline_iteration(Machine, cpu, scan_c, in, overflow_checks) } :
          LET k      == IF r.run THEN r.k[1]
                        ELSE [fetched |-> FALSE, new_cycles |-> 0, added |-> 0, trail |-> << >>]
              trail  == k.trail
              g      == CountCalls(r.order, [riot |-> gap.riot, cpu |-> gap.cpu,
                                             riot_gap |-> 3, cpu_gap |-> 3])
              tia_on == \E j \in 1..Len(r.order) : r.order[j] = "tia"
              wsyncs == WsyncWrites(trail)
              resets == VsyncWrites(trail, TRUE)
              count  == ins.valid /\ ~ins.halted /\ cpu.current_cycles # U64_WRAPPED
              ins1   == IF ~count THEN ins
                        ELSE IF scan_c % 3 = 2 /\ ~r.run
                        THEN [ins EXCEPT !.halted = TRUE, !.clocks = 0, !.tia = 0, !.riot = 0]
                        ELSE [ins EXCEPT !.tia = @ + (IF tia_on THEN 1 ELSE 0),
                                         !.riot = @ + (IF r.order[1] = "riot" THEN 1 ELSE 0)]
          IN  /\ tia' = r.m.tia
              /\ riot' = r.m.riot
              /\ rom' = r.m.rom
              /\ cpu' = r.cpu
              /\ prog' = r.prog
              /\ tia_eof' = IF tia_on THEN TIA_clock(tia).end_of_frame ELSE tia_eof
              /\ tia_ticks' = tia_ticks + (IF tia_on THEN 1 ELSE 0)
              /\ tick' = [c |-> scan_c, order |-> r.order,
                          halt |-> cpu_halt(TIA_clock(tia).tia),
                          riot_gap |-> g.riot_gap, cpu_gap |-> g.cpu_gap,
                          vsync_clear_kept |->
                              \A j \in VsyncWrites(trail, FALSE) :
                                  /\ trail[j].m.tia.scanline = trail[j - 1].m.tia.scanline
                                  /\ trail[j].m.tia.ctr.internal_value =
                                         trail[j - 1].m.tia.ctr.internal_value]
              /\ gap' = [riot |-> g.riot, cpu |-> g.cpu]
              /\ ws' = IF wsyncs # {}
                       THEN [active |-> TRUE,
                             i |-> trail[First(wsyncs) - 1].m.tia.ctr.internal_value,
                             n |-> 0,
                             rewritten |-> \E j \in resets : j > First(wsyncs)]
                       ELSE IF ws.active /\ tia_on
                       THEN IF r.m.tia.wsync THEN [ws EXCEPT !.n = @ + 1] ELSE NoWsync
                       ELSE ws
              /\ ws_done' = IF ws.active /\ tia_on /\ wsyncs = {} /\ ~r.m.tia.wsync
                            THEN [valid |-> TRUE, i |-> ws.i, n |-> ws.n + 1,
                                  rewritten |-> ws.rewritten,
                                  cpu |-> r.run]
                            ELSE NoWsyncDone
              /\ vs' = IF resets # {} THEN [active |-> TRUE, n |-> 0]
                       ELSE IF vs.active /\ tia_on
                       THEN IF vs.n < CLOCKS_PER_SCANLINE THEN [vs EXCEPT !.n = @ + 1]
                            ELSE NoVsync
                       ELSE vs
              /\ ins' = IF k.fetched
                        THEN [valid |-> TRUE, inst |-> Opcode(in.op).inst,
                              charged |-> k.new_cycles, clocks |-> 1, tia |-> 0,
                              riot |-> 0, halted |-> FALSE]
                        ELSE IF r.run /\ count
                        THEN [ins1 EXCEPT !.clocks = @ + 1, !.charged = @ + k.added]
                        ELSE ins1
              /\ done' = IF k.fetched THEN ins1 ELSE NoIns
    /\ scan_c' = (scan_c + 1) % CLOCKS_PER_SCANLINE
    /\ UNCHANGED <<ctr_vars, bus_vars, overflow_checks, riot_obs, cpu_obs, gfx_obs, tia_obs>>

\* programs of NOP, STA zp, TXS, BRK, JAM and an opcode the table leaves
\* without a mode; stores to VSYNC, WSYNC and CXCLR; the stack pointer at its
\* reset value or moved to 0x02, where BRK pushes the return address 0xF000
\* into WSYNC and VBLANK and the flags, Z clear or set, into VSYNC
SchedPrograms ==
    [ ops      |-> { 234, 133, 154, 0, 2, 75 },
      addrs    |-> { 0, 2, 44 },
      vals     |-> WriteVals,
      pushed   |-> { <<240, 0, 52>>, <<240, 0, 54>> },
      sps      |-> { 2 },
      sp_range |-> { STACK_INIT, 2 } ]

SchedStep == tia_ticks < MaxProgramTicks /\ SchedIteration(SchedPrograms)

InitSched ==
    InitCounterOf({<<40, 39>>}) /\ InitTIA /\ InitMachine
    /\ overflow_checks \in Builds

SpecSched == InitSched /\ [][SchedStep]_vars

\* programs of NOP, STA zp, TXS and BRK, followed over a whole scanline:
\* WSYNC is written by a store (the other store, to CXCLR, only spends 3
\* cycles) or, with the stack pointer moved to 0x02, by BRK's first push,
\* whose third push writes the flags, Z clear, to VSYNC and so leaves the
\* counter alone
LinePrograms ==
    [ ops      |-> { 234, 133, 154, 0 },
      addrs    |-> { 2, 44 },
      vals     |-> WriteVals,
      pushed   |-> { <<240, 0, 52>> },
      sps      |-> { 2 },
      sp_range |-> { STACK_INIT, 2 } ]

LineStep == SchedIteration(LinePrograms)

InitLine ==
    InitCounterOf({<<40, 39>>}) /\ InitTIA /\ InitMachine
    /\ overflow_checks \in Builds

SpecLine == InitLine /\ [][LineStep]_vars

(***************************************************************************)
(* The TIA clocked from construction, with register writes other than      *)
(* VSYNC and RSYNC in between.                                             *)
(***************************************************************************)
\* registers written between the clocks: VBLANK and WSYNC
FrameWriteAddrs == { 1, 2 }

FrameClock ==
    /\ tia_ticks < MaxFrameTicks
    /\ LET r == TIA_clock(tia)
       IN  /\ tia' = r.tia
           /\ tia_eof' = r.end_of_frame
    /\ tia_ticks' = tia_ticks + 1
    /\ UNCHANGED <<ctr_vars, mem_vars, prog, bus_vars, sched_vars, riot_obs, cpu_obs, gfx_obs, tia_obs>>

FrameWrite ==
    /\ \E a \in FrameWriteAddrs, v \in WriteVals : tia' = TIA_write(tia, a, v)
    /\ UNCHANGED <<tia_ticks, tia_eof, ctr_vars, mem_vars, prog, bus_vars, sched_vars, riot_obs, cpu_obs, gfx_obs, tia_obs>>

NextFrame == FrameClock \/ FrameWrite

InitFrame ==
    InitCounterOf({<<40, 39>>}) /\ InitTIA /\ InitMachine
    /\ overflow_checks \in ReleaseBuild

SpecFrame == InitFrame /\ [][NextFrame]_vars

(***************************************************************************)
(* SpecLoop: the frame loop of main().  fl.phase names the loop whose      *)
(* condition is tested next: the four scanline loops of a pass ("vsync",   *)
(* "vblank", "picture", "overscan"), then the event poll ("events"), and   *)
(* "quit" after the break.  The CPU's part in a scanline() call is the     *)
(* write it makes to VSYNC or VBLANK, here on the call's last CPU clock;   *)
(* the debugger is off, as constructed, so next_frame() is true.  The      *)
(* rows copied into frame_pixels and the index y that addresses them are   *)
(* not followed; the line counts vsync, vblank, visible, overscan and      *)
(* frames are written and never read.                                      *)
(***************************************************************************)

\* the flags the frame loop reads
TIA_in_vsync(t) == t.vsync
TIA_in_vblank(t) == t.vblank

\* n calls of TIA::clock(): the first half of them, then the rest
RECURSIVE TIA_clocks(_, _)
TIA_clocks(t, n) ==
    IF n = 0 THEN t
    ELSE IF n = 1 THEN TIA_clock(t).tia
    ELSE CHOOSE r \in { TIA_clocks(half, n - m) :
                            half \in { TIA_clocks(t, n \div 2) }, m \in { n \div 2 } } : TRUE

\* the program's write during a scanline: none, or a byte to VSYNC or VBLANK
LoopWrites ==
    { [some |-> FALSE, addr |-> 0, val |-> 0] }
        \cup [some : { TRUE }, addr : { 0, 1 }, val : { 0, 2 }]

\* the condition of each scanline loop
LoopCondition(phase, t) ==
    CASE phase = "vsync"    -> TIA_in_vsync(t)
      [] phase = "vblank"   -> TIA_in_vblank(t)
      [] phase = "picture"  -> ~TIA_in_vblank(t)
      [] phase = "overscan" -> ~TIA_in_vsync(t)
      [] OTHER -> FALSE

LoopPhases == { "vsync", "vblank", "picture", "overscan" }

LoopUnchanged ==
    UNCHANGED <<ctr_vars, tia_ticks, tia_eof, mem_vars, prog, bus_vars, sched_vars, riot_obs,
                cpu_obs, gfx_obs, obj, gfx, beam, scan>>

\* a loop whose condition holds runs its body: one scanline() call
LoopScanline ==
    /\ fl.phase \in LoopPhases
    /\ LoopCondition(fl.phase, tia)
    /\ \E t1 \in { TIA_clocks(tia, CLOCKS_PER_SCANLINE) } : \E w \in LoopWrites :
          tia' = IF w.some THEN TIA_write(t1, w.addr, w.val) ELSE t1
    /\ fl' = fl
    /\ LoopUnchanged

\* a loop whose condition fails is left for the next one; after the overscan
\* loop the frame is presented
LoopAdvance ==
    /\ fl.phase \in LoopPhases
    /\ ~LoopCondition(fl.phase, tia)
    /\ fl' = CASE fl.phase = "vsync"   -> [fl EXCEPT !.phase = "vblank"]
               [] fl.phase = "vblank"  -> [fl EXCEPT !.phase = "picture"]
               [] fl.phase = "picture" -> [fl EXCEPT !.phase = "overscan"]
               [] OTHER                -> [fl EXCEPT !.phase = "events"]
    /\ tia' = tia
    /\ LoopUnchanged

\* the event poll: Quit breaks the loop, otherwise the next pass begins
LoopEvents ==
    /\ fl.phase = "events"
    /\ \E quit \in BOOLEAN : fl' = [fl EXCEPT !.phase = IF quit THEN "quit" ELSE "vsync"]
    /\ tia' = tia
    /\ LoopUnchanged

NextLoop == LoopScanline \/ LoopAdvance \/ LoopEvents

InitLoop ==
    InitCounterOf({<<40, 39>>}) /\ InitTIA /\ InitMachine /\ overflow_checks \in ReleaseBuild

SpecLoop == InitLoop /\ [][NextLoop]_vars

\* the main thread keeps running: an enabled step of the loop is taken
SpecLoopFair == SpecLoop /\ WF_vars(NextLoop)

(***************************************************************************)
(* SpecBeam: the TIA clocked without end from construction, with VSYNC,    *)
(* RSYNC and HMOVE written at any time.  The scanline counter stops at     *)
(* its maximum, so the states are finitely many and the ticks are not      *)
(* counted.                                                                *)
(***************************************************************************)
BeamWriteAddrs == { 0, 3, 42 }
VsyncBytes == { 0, 2 }
BeamBytes(a) == IF a = 0 THEN VsyncBytes ELSE { 0 }

BeamClock ==
    /\ \E r \in { TIA_clock(tia) }, p \in { TIA_clock_pixel(tia) } :
          /\ tia' = r.tia
          /\ tia_eof' = r.end_of_frame
          /\ beam' = [op |-> "clock", address |-> 0, val |-> 0,
                      pos |-> Counter_value(tia.ctr), scanline |-> tia.scanline,
                      drawn |-> p.drawn, x |-> p.x, y |-> p.y,
                      eofs |-> beam.eofs + (IF r.end_of_frame THEN 1 ELSE 0)]
    /\ UNCHANGED <<tia_ticks, ctr_vars, mem_vars, prog, bus_vars, sched_vars, riot_obs,
                   cpu_obs, gfx_obs, obj, gfx, scan, fl>>

BeamWrite ==
    /\ \E a \in BeamWriteAddrs : \E v \in BeamBytes(a) :
          /\ tia' = TIA_write(tia, a, v)
          /\ beam' = [op |-> "write", address |-> a, val |-> v,
                      pos |-> Counter_value(tia.ctr), scanline |-> tia.scanline,
                      drawn |-> FALSE, x |-> 0, y |-> 0,
                      eofs |-> IF a = 0 /\ BitAnd(v, 2) # 0 THEN 0 ELSE beam.eofs]
    /\ UNCHANGED <<tia_ticks, tia_eof, ctr_vars, mem_vars, prog, bus_vars, sched_vars,
                   riot_obs, cpu_obs, gfx_obs, obj, gfx, scan, fl>>

NextBeam == BeamClock \/ BeamWrite

InitBeam ==
    InitCounterOf({<<40, 39>>}) /\ InitTIA /\ InitMachine
    /\ overflow_checks \in ReleaseBuild

SpecBeam == InitBeam /\ [][NextBeam]_vars

(***************************************************************************)
(* SpecRegs: register writes to the TIA as constructed, before its first   *)
(* clock: the size registers, the position strobes and the missile-to-     *)
(* player resets.                                                          *)
(***************************************************************************)
\* CTRLPF, NUSIZ0, NUSIZ1, RESP0, RESP1, RESM0, RESM1, RESMP0, RESMP1
RegsAddrs == { 10, 4, 5, 16, 17, 18, 19, 40, 41 }
RegsBytes == { 0, 2, 16, 48 }

RegsWrite ==
    /\ prog = "running"
    /\ \E a \in RegsAddrs, v \in RegsBytes :
          \E r \in { TIA_write_sprites(gfx, tia, a, v) } :
             /\ beam' = [NoBeam EXCEPT !.op = "write", !.address = a, !.val = v]
             /\ prog' = IF r.ok THEN "running" ELSE "panicked"
             /\ gfx' = r.gfx
             /\ tia' = IF r.ok THEN TIA_write(tia, a, v) ELSE tia
             /\ pfs' = IF r.ok THEN TIA_write_playfield(pfs, a, v) ELSE pfs
             /\ obj' = IF r.ok /\ a = 10 THEN [obj EXCEPT !.nusiz = SizeDecode(v).v] ELSE obj
    /\ UNCHANGED <<tia_ticks, tia_eof, ctr_vars, mem_vars, bus_vars, sched_vars, riot_obs,
                   cpu_obs, px, line, scan, fl>>

InitRegs ==
    InitCounterOf({<<40, 39>>}) /\ InitTIA /\ InitMachine
    /\ overflow_checks \in ReleaseBuild

SpecRegs == InitRegs /\ [][RegsWrite]_vars


\* Counter: clock(), reset(), reset_to() and the owner's store
NextCounter == CtrClock \/ CtrReset \/ CtrResetTo \/ CtrOverwrite

InitCounter ==
    InitCounterOf(CounterShapes) /\ InitTIA /\ InitMachine
    /\ overflow_checks \in ReleaseBuild

SpecCounter == InitCounter /\ [][NextCounter]_vars

\* Counter: a horizontal move with the HM register held constant, between
\* the counter's ordinary clocks
NextHmove == CtrStartHmove \/ CtrApplyHmove \/ CtrClock

InitHmove ==
    InitCounterOf(CounterShapes) /\ InitTIA /\ InitMachine
    /\ overflow_checks \in ReleaseBuild

SpecHmove == InitHmove /\ [][NextHmove]_vars

(***************************************************************************)
(* SpecMotion: an object's counter under an HMOVE strobe, with the         *)
(* object's HM offset rewritten between the apply_hmove calls (HMxx        *)
(* writes, HMCLR), as Ball, Missile and Player pass their hmove_offset of  *)
(* the moment to every call.                                               *)
(***************************************************************************)
\* HM bytes: no motion, 1 clock, 8 clocks (the byte HMCLR stores), 15 clocks
MotionBytes == { 128, 144, 0, 112 }

\* start_hmove(hmove_offset): the first strobe, and a further strobe once the
\* motion has stopped with the counter within its first 16 values
MotionStart ==
    /\ prog = "running"
    /\ ctr_fresh \/ (~ctr.movement_required /\ ctr.internal_value < MaxRestartValue)
    /\ \E b \in MotionBytes :
          /\ ctr' = Counter_start_hmove(ctr, b)
          /\ hm' = [started |-> TRUE, b |-> b, constant |-> TRUE, applied |-> 0]
    /\ ctr_last' = [NoCall EXCEPT !.op = "start_hmove", !.before = Counter_value(ctr)]
    /\ ctr_fresh' = FALSE
    /\ ctr_calls' = 0
    /\ UNCHANGED <<tia_vars, mem_vars, prog, bus_vars, sched_vars, riot_obs, cpu_obs,
                   gfx_obs, tia_obs>>

\* set_hmove_value(), hmclr()
MotionSetHm ==
    /\ prog = "running"
    /\ hm.started
    /\ \E b \in MotionBytes :
          /\ b # hm.b
          /\ hm' = [hm EXCEPT !.b = b, !.constant = FALSE]
    /\ ctr_last' = [NoCall EXCEPT !.op = "set_hmove_value", !.before = Counter_value(ctr)]
    /\ UNCHANGED <<ctr, ctr_fresh, ctr_calls, tia_vars, mem_vars, prog, bus_vars,
                   sched_vars, riot_obs, cpu_obs, gfx_obs, tia_obs>>

\* apply_hmove(hmove_offset); `self.ticks_added += 1` on a u8 panics at 255
\* in a build with overflow checks
MotionApply ==
    /\ hm.applied < MaxMotionCalls
    /\ ctr.movement_required \/ hm.applied < ctr.ticks_added + MaxIdleCalls
    /\ prog = "running"
    /\ hm.started
    /\ \E r \in { Counter_apply_hmove(ctr, hm.b) } :
          IF ctr.movement_required /\ ctr.ticks_added = U8 - 1 /\ overflow_checks
          THEN /\ prog' = "panicked"
               /\ ctr' = Counter_clock(ctr).ctr
               /\ ctr_last' = [NoCall EXCEPT !.op = "apply_hmove",
                                             !.before = Counter_value(ctr)]
          ELSE /\ prog' = prog
               /\ ctr' = r.ctr
               /\ ctr_last' = [op |-> "apply_hmove", moved |-> r.moved,
                               clocked |-> r.clocked, before |-> Counter_value(ctr),
                               adv |-> Advance(ctr, r.ctr)]
    /\ hm' = [hm EXCEPT !.applied = @ + 1]
    /\ UNCHANGED <<ctr_fresh, ctr_calls, tia_vars, mem_vars, bus_vars, sched_vars,
                   riot_obs, cpu_obs, gfx_obs, tia_obs>>

NextMotion == MotionStart \/ MotionSetHm \/ MotionApply

InitMotion ==
    InitCounterOf({<<40, 39>>}) /\ InitTIA /\ InitMachine
    /\ overflow_checks \in Builds

SpecMotion == InitMotion /\ [][NextMotion]_vars

(***************************************************************************)
(* Counter claims.                                                         *)
(***************************************************************************)
\* C5: a call of clock() returns true if and only if value() after the call
\* differs from value() before the call, in every reachable counter state
\* (after reset(), reset_to(v) and the owner's store included).
C5_ClockReportsChange ==
    ctr_last.op = "clock" =>
        (ctr_last.clocked <=> (Counter_value(ctr) # ctr_last.before))

\* C6: on a fresh counter of period P, clock() returns true on exactly every
\* 4th call, value() after k calls is floor(k / 4) mod P, and the 4P-th call
\* is the wrap from P-1 to 0 and returns true.
C6_FreshClocking ==
    (ctr_fresh /\ ctr_calls > 0) =>
        /\ ctr_last.clocked <=> (ctr_calls % 4 = 0)
        /\ Counter_value(ctr) = (ctr_calls \div 4) % ctr.period
        /\ (ctr_calls = 4 * ctr.period) =>
              /\ Counter_value(ctr) = 0
              /\ ctr_last.before = ctr.period - 1
              /\ ctr_last.clocked

\* the 4P-th clock() of a fresh HSYNC-sized counter has just been made
C6_Witness ==
    ctr_fresh /\ ctr.period = 57 /\ ctr_calls = 4 * 57 /\ ctr_last.clocked

\* the quota the claim states for an HM byte b
QuotaOf(b) == LET n == b \div 16 IN IF n >= 8 THEN n - 8 ELSE n + 8

\* C7: with the HM byte b held constant and N its quota, each of the first N
\* apply_hmove(b) calls after start_hmove(b) clocks the counter exactly once and
\* returns (true, _); every later call returns (false, false) and leaves the
\* counter unchanged; for N = 0 no call clocks the counter.
C7_HmoveQuota ==
    (ctr_last.op = "apply_hmove" /\ hm.constant) =>
        IF hm.applied <= QuotaOf(hm.b)
        THEN ctr_last.moved /\ ctr_last.adv = 1 /\ ctr.ticks_added = hm.applied
        ELSE /\ ~ctr_last.moved /\ ~ctr_last.clocked /\ ctr_last.adv = 0
             /\ ctr.ticks_added = QuotaOf(hm.b)

\* HM byte 0x70 (quota 15): the 16th apply_hmove has just returned (false, false)
C7_Witness ==
    /\ ctr_last.op = "apply_hmove" /\ hm.b = 112 /\ hm.applied = 16
    /\ ~ctr_last.moved /\ ctr.ticks_added = 15

(***************************************************************************)
(* TIA frame claims.                                                       *)
(***************************************************************************)
\* C9: from scanline 0 with the HSYNC counter at 0 and no VSYNC or RSYNC
\* write, TIA.clock() advances the scanline counter exactly once every 228
\* ticks, so the 262 scanlines of a frame take 59,736 ticks.
C9_FrameLength ==
    /\ tia.ctr.internal_value = tia_ticks % 228
    /\ tia.scanline = (IF tia_ticks \div 228 < 262 THEN tia_ticks \div 228 ELSE 262)
    /\ (tia.scanline = 262) <=> (tia_ticks >= 59736)

\* the last tick of the 262nd scanline has just been clocked
C9_Witness ==
    tia_ticks = 59736 /\ tia.scanline = 262 /\ tia.ctr.internal_value = 0

(***************************************************************************)
(* Bus claims.                                                             *)
(***************************************************************************)
\* the address lines of a 16-bit address, as the claim names them
Line(a, k) == (a \div (2 ^ k)) % 2

\* the device and device address the claim gives for an access of address a
RouteOf(op, a) ==
    IF Line(a, 12) = 1 THEN [dev |-> "rom", addr |-> a % 4096]
    ELSE IF Line(a, 7) = 0
         THEN [dev |-> "tia", addr |-> IF op = "write" THEN a % 64 ELSE (a % 16) + 48]
    ELSE IF Line(a, 9) = 1
         THEN [dev |-> "riot", addr |-> 640 + (a % 128)]
    ELSE [dev |-> "riot", addr |-> a % 128]

\* the addresses that select a RIOT RAM cell, and the cell
RamMirrors == { a \in BusAddrs : Line(a, 12) = 0 /\ Line(a, 9) = 0 /\ Line(a, 7) = 1 }
RamCellOf(a) == a % 128

\* C10: every CPU access of a 16-bit address a is performed on a & 0x1FFF and
\* routed to exactly one device by A12, A9, A7 (ROM at a & 0xFFF, RIOT I/O,
\* RIOT RAM at a & 0x7F, TIA at the low 6 bits for writes and (a & 0x0F) | 0x30
\* for reads); a byte written to RIOT RAM through one mirror is read back
\* through every other mirror.
C10_BusDecoding ==
    (acc.op # "none") =>
        /\ acc.bus_addr = acc.a % 8192
        /\ acc.call = RouteOf(acc.op, acc.a)
        /\ (acc.op = "write" /\ acc.a \in RamMirrors) =>
              \A b \in RamMirrors :
                  RamCellOf(b) = RamCellOf(acc.a) => CPU_read(Machine, b).val = acc.v
        /\ \A b \in RamMirrors :
              CPU_read(Machine, b).val = RamGet(riot.ram, RamCellOf(b))

\* a non-zero byte was written to RIOT RAM through the mirror with A10 and A11
\* set, and the mirror with A13 set reads it back
C10_Witness ==
    /\ acc.op = "write" /\ acc.a = 3072 + 128 /\ acc.v = 2
    /\ CPU_read(Machine, 8192 + 128).val = 2

(***************************************************************************)
(* Scheduler claims.                                                       *)
(***************************************************************************)
Has(order, d) == \E j \in 1..Len(order) : order[j] = d

\* C1: after the CPU writes WSYNC while the HSYNC counter's internal value is
\* i, the halt flag stays set and CPU.clock() is not invoked until the flag is
\* cleared by exactly the (228 - i)-th following TIA.clock().
C1_WsyncHaltDuration ==
    /\ ws.active =>
          /\ tia.wsync
          /\ ws.n < 228 - ws.i
          /\ ws.n > 0 => ~Has(tick.order, "cpu")
    /\ ws_done.valid => ws_done.n = 228 - ws_done.i

\* C2: in every iteration the RIOT is clocked first and only when c % 3 = 0,
\* the TIA is clocked next and always, and the CPU is clocked last, exactly
\* when c % 3 = 2 and the TIA clocked in this iteration does not report a
\* halt; so the RIOT is clocked once per 3 TIA clocks whether or not the CPU
\* is halted, and the CPU at most once per 3 TIA clocks and never while
\* halted.
C2_SchedulerOrder ==
    (tick.order # << >> /\ prog # "panicked") =>
        /\ tick.order =
              (IF tick.c % 3 = 0 THEN << "riot" >> ELSE << >>) \o << "tia" >>
              \o (IF tick.c % 3 = 2 /\ ~tick.halt THEN << "cpu" >> ELSE << >>)
        /\ Has(tick.order, "riot") => tick.riot_gap = 3
        /\ gap.riot <= 3
        /\ Has(tick.order, "cpu") => (tick.cpu_gap = 3 /\ ~tick.halt)

\* the RIOT was clocked in an iteration in which the CPU is halted and has
\* not been clocked for at least 3 TIA clocks
C2_Witness ==
    /\ tick.order = << "riot", "tia" >> /\ tick.halt /\ prog = "running"
    /\ ws.active /\ ws.n > 3 /\ gap.cpu = 3 /\ gap.riot = 1

\* C3: every opcode that decodes to an instruction, JAM included, is charged
\* at least 2 cycles; an instruction charged n cycles takes n CPU.clock()
\* calls, 3n TIA clocks and n RIOT clocks from its fetch to the next fetch
\* when no WSYNC halt intervenes.
C3_ChargedCycles ==
    /\ (ins.valid /\ ins.inst # "None") => ins.charged >= 2
    /\ (done.valid /\ ~done.halted) =>
          /\ done.clocks = done.charged
          /\ done.tia = 3 * done.charged
          /\ done.riot = done.charged

C8_VsyncReset ==
    /\ tick.vsync_clear_kept
    /\ vs.active =>
          /\ vs.n = 0 => (tia.scanline = 0 /\ tia.ctr.internal_value = 0)
          /\ vs.n < 228 => tia.scanline = 0
          /\ vs.n = 228 => tia.scanline = 1

(***************************************************************************)
(* Cartridge claims.                                                       *)
(***************************************************************************)
\* C11: with a cartridge image of 2048 bytes every CPU read with A12 = 1
\* succeeds, and a read at ROM offset k returns the image byte at k mod 2048,
\* so that cpu.reset() can read the reset vector at offsets 0xFFC / 0xFFD.
C11_CartMirrored ==
    (rom.len = 2048 /\ acc.op = "read" /\ acc.call.dev = "rom") =>
        /\ prog # "panicked"
        /\ rom.patch = << >> => acc.val = RomImage(acc.call.addr % 2048)

(***************************************************************************)
(* RIOT claims.                                                            *)
(***************************************************************************)
\* C12: after K is written to TIM64T, INTIM = K - 1 after 64 RIOT clocks,
\* INTIM = 0 after 64 * K clocks in total, and after one clock more
\* INTIM = 0xFF and INSTAT bit 7 is set.
C12_TimerSchedule ==
    (tm.set /\ tm.interval = 64 /\ rd.op = "none") =>
        /\ tm.n = 64 => riot.intim = (tm.k - 1) % 256
        /\ tm.n = 64 * tm.k => riot.intim = 0
        /\ tm.n = 64 * tm.k + 1 => (riot.intim = 255 /\ riot.instat \div 128 = 1)

\* C13: a read of INSTAT returns the value INSTAT held before the read and
\* leaves INSTAT with bit 6 cleared and bit 7 unchanged; no other field of the
\* RIOT changes.
C13_InstatRead ==
    (rd.op = "read" /\ rd.address = 645) =>
        /\ rd.val = rd.before.instat
        /\ riot.instat % 64 = rd.before.instat % 64
        /\ (riot.instat \div 64) % 2 = 0
        /\ riot.instat \div 128 = rd.before.instat \div 128
        /\ riot = [rd.before EXCEPT !.instat = riot.instat]

\* INSTAT was read as 0xC0 after the timer ran out, and holds 0x80 now
C13_Witness ==
    /\ rd.op = "read" /\ rd.address = 645 /\ rd.val = 192 /\ riot.instat = 128
    /\ tm.set /\ tm.n > 0

\* INTIM as a read returns it
Intim == RIOT_read(riot, 644).val

\* the timing part of C25: after a write of K >= 1 INTIM stays K - 1 for
\* the R - 1 clocks that follow and is decremented on the R-th
FirstInterval ==
    (tm.set /\ tm.k >= 1) =>
        /\ tm.n < tm.interval => Intim = tm.k - 1
        /\ tm.n = tm.interval => Intim = (tm.k - 2) % 256

\* C25 as stated: immediately after a write of K to TIM1T, TIM8T, TIM64T or
\* T1024T INTIM reads (K - 1) mod 256 and the resolution is 1, 8, 64 or 1024,
\* for every K; for K >= 1 the next decrement is on the R-th clock.
C25_TimerWriteAnyByte ==
    /\ (tm.set /\ tm.n = 0) =>
          (Intim = (tm.k - 1) % 256 /\ riot.resolution = tm.interval)
    /\ FirstInterval

\* C25: immediately after a write of K to TIM1T, TIM8T, TIM64T or T1024T
\* INTIM reads (K - 1) mod 256; the resolution is 1, 8, 64 or 1024 for
\* K >= 1 and 1 for K = 0, whose immediate decrement is an underflow; for
\* K >= 1 the next decrement is on the R-th clock and not before.
C25_TimerWrite ==
    /\ (tm.set /\ tm.n = 0) =>
          /\ Intim = (tm.k - 1) % 256
          /\ riot.resolution = (IF tm.k = 0 THEN 1 ELSE tm.interval)
    /\ FirstInterval

\* 3 was written to T1024T and the 1024th clock has decremented INTIM to 1
C25_Witness ==
    /\ tm.set /\ tm.k = 3 /\ tm.interval = 1024 /\ tm.n = 1024
    /\ Intim = 1 /\ riot.resolution = 1024

\* C26: once INTIM has gone from 0 to 0xFF, by a clock or by the immediate
\* decrement of a write of 0, INSTAT bits 7 and 6 are set, the resolution is
\* 1, and INTIM is decremented on every RIOT clock until the next timer
\* write.
C26_TimerUnderflow ==
    tm.under =>
        /\ riot.resolution = 1
        /\ Intim = (255 - tm.since) % 256
        /\ (tm.since % 256 = 0 /\ rd.op = "none") => BitAnd(riot.instat, 192) = 192

\* 2 was written to TIM8T, INTIM ran out on the 16th clock and has come
\* down to 0xFD two clocks later
C26_Witness ==
    /\ tm.under /\ tm.k = 2 /\ tm.interval = 8 /\ tm.n = 18 /\ tm.since = 2
    /\ Intim = 253

\* the bit each joystick direction drives on port A
DirBit(dir) ==
    CASE dir = "up" -> 4 [] dir = "down" -> 5 [] dir = "left" -> 6 [] dir = "right" -> 7

\* C14: a read of SWCHA returns, bit by bit, the SWCHA register where SWACNT
\* is 1 and port A where it is 0, and a read of SWCHB the same of SWCHB,
\* SWBCNT and port B; up/down/left/right(pressed) change only their own bit
\* of port A, to 0 when pressed and to 1 when released, so that with
\* SWACNT = 0 the SWCHA bit of a direction reads 0 exactly while it is held.
C14_PortRead ==
    /\ (rd.op = "read" /\ rd.address = 640) =>
          /\ \A i \in 0..7 :
                Bit(rd.val, i) = IF Bit(rd.before.swacnt, i) = 1
                                 THEN Bit(rd.before.swcha, i)
                                 ELSE Bit(rd.before.port_a, i)
          /\ riot = rd.before
    /\ (rd.op = "read" /\ rd.address = 642) =>
          /\ \A i \in 0..7 :
                Bit(rd.val, i) = IF Bit(rd.before.swbcnt, i) = 1
                                 THEN Bit(rd.before.swchb, i)
                                 ELSE Bit(rd.before.port_b, i)
          /\ riot = rd.before
    /\ rd.op \in Directions =>
          /\ \A i \in 0..7 :
                Bit(riot.port_a, i) = IF i = DirBit(rd.op)
                                      THEN (IF rd.pressed THEN 0 ELSE 1)
                                      ELSE Bit(rd.before.port_a, i)
          /\ riot = [rd.before EXCEPT !.port_a = riot.port_a]
    /\ (rd.op # "none" /\ riot.swacnt = 0) =>
          \A dir \in Directions :
              Bit(RIOT_read(riot, 640).val, DirBit(dir)) = 0 <=> dir \in rd.held

C14_Witness ==
    /\ rd.op = "read" /\ rd.address = 640
    /\ rd.before.swacnt = 165 /\ rd.held = { "up", "right" } /\ rd.val = 64

C16_FlagRestore ==
    /\ stk.op \in { "plp", "rti" } =>
          \A k \in 0..7 :
              Bit(CPU_flags(sr), k) = CASE k = 4 -> 0 [] k = 5 -> 1 [] OTHER -> Bit(stk.val, k)
    /\ stk.op = "reset" => \A w \in 0..255 : CPU_flags(CPU_set_flags(w)) = w

C16_Witness ==
    /\ stk.op = "plp" /\ stk.val = 255 /\ CPU_flags(sr) = 239

\* C17: bit 5 of flags() is 1 in every state of the CPU, from construction
\* on, and every flag byte pushed by PHP or BRK has bit 5 set.
C17_UnusedFlag ==
    /\ Bit(CPU_flags(sr), 5) = 1
    /\ stk.op \in { "php", "brk" } => Bit(stk.val, 5) = 1

\* the cycles of the branch in br by the rule of the 6502: the opcode's two
\* high bits name the flag (N, V, C, Z), bit 5 the value that takes the
\* branch; the target is the post-increment PC plus the signed offset
BranchFlagBit == << 7, 6, 0, 1 >>
BranchCycles ==
    LET taken  == Bit(br.flags, BranchFlagBit[(br.op \div 64) + 1]) = Bit(br.op, 5)
        next   == (br.pc + 2) % 65536
        target == (br.pc + 2 + S8(br.offset)) % 65536
    IN  IF ~taken THEN 2 ELSE IF target \div 256 = next \div 256 THEN 3 ELSE 4

\* C18: a branch takes 2 cycles when not taken, 3 when taken within the page
\* of the post-increment PC and 4 when taken to another page, for every
\* branch opcode, flag state, PC and offset, as step()'s returned count and
\* as the number of clock() calls the instruction occupies.
C18_BranchTiming ==
    /\ br.kind # "none" => prog = "running"
    /\ br.kind = "step" => br.count = BranchCycles
    /\ br.kind = "clock" => (br.clocks <= BranchCycles /\ (br.done <=> br.clocks = BranchCycles))

\* the candidates of a pixel in the two priority orders, and the first of a
\* sequence of candidates that is not transparent
NormalOrder(g) ==
    << get_p0_color(g), get_m0_color(g), get_p1_color(g), get_m1_color(g),
       Playfield_get_color(g), Ball_get_color(g) >>
PlayfieldOrder(g) ==
    << Playfield_get_color(g), Ball_get_color(g), get_p0_color(g), get_m0_color(g),
       get_p1_color(g), get_m1_color(g) >>
FirstOpaque(cands, default) ==
    IF \A k \in 1..Len(cands) : ~cands[k].some THEN default
    ELSE cands[CHOOSE k \in 1..Len(cands) :
                   cands[k].some /\ \A j \in 1..(k - 1) : ~cands[j].some].v

DotColor(x) == Option_unwrap_or(line[x + 1], pfs.colors.colubk)

\* PF0 = 0x10, PF1 = 0, PF2 = 0, CTRLPF = 0, COLUPF = 0x0E, COLUBK = 0 and the
\* scanline drawn to its end
RenderScenario ==
    /\ Len(line) = VISIBLE_DOTS
    /\ pfs.pf0 = 16 /\ pfs.pf1 = 0 /\ pfs.pf2 = 0
    /\ ~pfs.horizontal_mirror /\ ~pfs.score_mode /\ ~pfs.priority
    /\ pfs.colors.colupf = 14 /\ pfs.colors.colubk = 0

ScanInactive(o) ==
    IF o.kind = "player" THEN o.graphic_delay = 0 /\ ~o.graphic_draw
    ELSE ~o.graphic_bit_idx.some
ScanIndex(o) ==
    IF o.kind = "player"
    THEN (IF o.graphic_delay > 0 THEN -1 * o.graphic_delay ELSE o.graphic_bit_idx)
    ELSE o.graphic_bit_idx.v

\* the index of an active scan counter is in [-INIT_DELAY, GRAPHIC_SIZE)
ScanIndexInRange ==
    ~ScanInactive(obj) =>
        /\ ScanIndex(obj) >= -1 * INIT_DELAY(obj.kind)
        /\ ScanIndex(obj) < GRAPHIC_SIZE(obj.kind)

\* C22: the graphics scan counter of a Ball, Missile or Player is either
\* inactive, and get_color() is then transparent, or active at an index in
\* [-INIT_DELAY, GRAPHIC_SIZE); the object gives no colour while its scan
\* counter is inactive or in the negative delay range.
C22_ScanCounter ==
    /\ ScanIndexInRange
    /\ (ScanInactive(obj) \/ ScanIndex(obj) < 0) => ~Sprite_get_color(obj)

\* the same for the player alone
PlayerScanCounter == obj.kind = "player" => C22_ScanCounter

(***************************************************************************)
(* Beam claims.                                                            *)
(***************************************************************************)
\* the last call was a clock() on which the HSYNC position returned to 0
BeamWrapped ==
    beam.op = "clock" /\ beam.pos # 0 /\ Counter_value(tia.ctr) = 0

\* C23: immediately after a write of any byte to RSYNC (0x03) the HSYNC
\* counter is at its reset position, wherever in the scanline the write
\* was made.
C23_RsyncResets ==
    (beam.op = "write" /\ beam.address = 3) => tia.ctr.internal_value = 0

\* C27: clock() reports end_of_frame exactly on the ticks on which the HSYNC
\* position has just returned to 0 and the scanline counter thereby becomes
\* 3; between two VSYNC resets it is reported at most once.
C27_EndOfFrame ==
    /\ beam.op = "clock" =>
          (tia_eof <=> (BeamWrapped /\ beam.scanline = 2 /\ tia.scanline = 3))
    /\ beam.eofs <= 1

\* a frame that began with a VSYNC reset reports its end, once
C27_Witness ==
    /\ beam.op = "clock" /\ tia_eof /\ beam.eofs = 1
    /\ tia.vsync /\ tia.scanline = 3 /\ BeamWrapped

\* C28: the scanline counter is in 0..261 in every reachable state.
C28_ScanlineRange == tia.scanline \in 0..261

\* C29: the clock() on which the HSYNC position returns to 0 clears the
\* late-reset flag that an HMOVE strobe raised, so that in_hblank() uses the
\* boundary of 68 on the next scanline.
C29_LateResetOneLine ==
    BeamWrapped => (tia.late_reset_hblank = 0 /\ in_hblank(tia) = (tia.ctr.internal_value < 68))

\* C30: clock() writes a frame-buffer pixel on exactly the ticks on which the
\* scanline is in [40, 232) and the HSYNC position is greater than 16
\* (greater than 18 while late reset is active) and at most 56, at row
\* scanline - 40 and column internal value - 68.
C30_VisibleWindow ==
    beam.op = "clock" =>
        LET pos   == Counter_value(tia.ctr)
            first == IF tia.late_reset_hblank # 0 THEN 18 ELSE 16
        IN  /\ beam.drawn <=>
                  (tia.scanline >= 40 /\ tia.scanline < 232 /\ pos > first /\ pos <= 56)
            /\ beam.drawn =>
                  /\ beam.y = tia.scanline - 40 /\ beam.x = tia.ctr.internal_value - 68
                  /\ beam.y \in 0..191 /\ beam.x \in 0..159

\* the same window without the late reset: position greater than 16 always
VisibleWindowFrom17 ==
    beam.op = "clock" =>
        LET pos == Counter_value(tia.ctr)
        IN  /\ beam.drawn <=>
                  (tia.scanline >= 40 /\ tia.scanline < 232 /\ pos > 16 /\ pos <= 56)
            /\ beam.drawn =>
                  /\ beam.y = tia.scanline - 40 /\ beam.x = tia.ctr.internal_value - 68
                  /\ beam.y \in 0..191 /\ beam.x \in 0..159

(***************************************************************************)
(* Register claims.                                                        *)
(***************************************************************************)
\* the size decodes are total: no byte reaches their unreachable!() arm
SizeDecodesTotal == \A v \in 0..255 : SizeDecode(v).some

\* the last write reached unreachable!() in a centering-offset lookup
OffsetLookupFailed ==
    /\ beam.op = "write" /\ prog = "panicked"
    /\ beam.address \in { 40, 41 } /\ ~CenterOffset(gfx.m0_size).some

\* C24: no sequence of register writes to the freshly constructed TIA reaches
\* an unreachable!() arm: the size decodes of CTRLPF, NUSIZ0 and NUSIZ1 and
\* the centering-offset lookups of RESMP0 and RESMP1 are total in every
\* reachable state.
C24_WritesTotal ==
    /\ SizeDecodesTotal
    /\ beam.op = "write" => prog # "panicked"

(***************************************************************************)
(* Draw claims: a draw is the stretch of graphic-circuit ticks after the   *)
(* scan counter of obj was armed; scan.t numbers its ticks from 1.         *)
(***************************************************************************)
\* a draw of a ball that has been enabled, with VDEL off and its size left
\* alone, since the arming
BallDraw ==
    /\ obj.kind = "ball" /\ scan.armed /\ scan.steady /\ scan.t >= 1
    /\ obj.enabled /\ ~obj.vdel

\* C31: after the ball's scan counter is armed, with the ball enabled, VDEL
\* off and the size s unchanged, get_color() is transparent on the first 4
\* ticks, the colour on exactly the next s ticks, and transparent afterwards.
C31_BallDrawLength ==
    BallDraw => (Sprite_get_color(obj) <=> scan.t \in 5..(4 + obj.nusiz))

\* the same for the armings that find the ball's output transparent
BallDrawFromClear ==
    (BallDraw /\ scan.clear) => (Sprite_get_color(obj) <=> scan.t \in 5..(4 + obj.nusiz))

\* a draw of a player with single-width pixels and its registers left alone
\* since the arming
PlayerDraw ==
    /\ obj.kind = "player" /\ scan.armed /\ scan.steady /\ scan.t >= 1
    /\ copies(obj) = 1

\* sample i of the player's graphic: bit 7 - i, bit i when mirrored, of the
\* graphic or of the VDEL-latched one
GraphicSample(o, i) ==
    LET graphic == IF o.vdel THEN o.old_value ELSE o.graphic
    IN  IF o.horizontal_mirror THEN Bit(graphic, i) = 1 ELSE Bit(graphic, 7 - i) = 1

\* the output of a player draw whose first sample is on tick first: n
\* samples, the i-th coloured iff its graphic bit is set
SamplesFrom(first, n) ==
    LET i == scan.t - first
    IN  Sprite_get_color(obj) <=> (i \in 0..(n - 1) /\ GraphicSample(obj, i))

\* C32: each time a player's scan counter is armed and runs to completion
\* with single-width pixels, the player outputs GRAPHIC_SIZE = 8 consecutive
\* samples, the i-th coloured iff bit 7 - i of the graphic is set.
C32_PlayerEightBits ==
    PlayerDraw => SamplesFrom(INIT_DELAY("player"), GRAPHIC_SIZE("player"))

\* in the code a draw that starts at bit index 0 outputs the first 7 samples:
\* the tick that writes the last one clears graphic_draw
PlayerSevenBitsFromBit0 ==
    (PlayerDraw /\ scan.clear)
    => SamplesFrom(INIT_DELAY("player"), GRAPHIC_SIZE("player") - 1)

\* the tick of a draw on which a ball or missile has output its first bit
SpriteFirstBitTick == INIT_DELAY("ball") + 1

\* a ball or missile outputs its bit from tick 5 of the draw on
SpriteFirstBit ==
    (obj.kind \in { "ball", "missile" } /\ scan.armed /\ scan.steady /\ scan.clear
        /\ obj.enabled /\ scan.t >= 1)
    => /\ Sprite_get_color(obj) => scan.t >= SpriteFirstBitTick
       /\ scan.t = SpriteFirstBitTick => Sprite_get_color(obj)

\* the player has output no bit up to tick n of the draw and its first bit
\* on the tick after
PlayerFirstBitAfter(n) ==
    (PlayerDraw /\ scan.clear)
    => /\ scan.t <= n => (obj.graphic_bit_idx = 0 /\ ~Sprite_get_color(obj))
       /\ scan.t = n + 1 => obj.graphic_bit_idx = 1

\* C33: counted from the arming, a player outputs its first graphic bit
\* exactly one tick later than a ball or missile outputs its bit.
C33_PlayerStartDelay == SpriteFirstBit /\ PlayerFirstBitAfter(SpriteFirstBitTick)

\* in the code the player's first bit is on the tick of the ball's
PlayerFirstBitWithSprite == SpriteFirstBit /\ PlayerFirstBitAfter(SpriteFirstBitTick - 1)

\* C39: once a ball's or missile's scan counter is armed it is inactive
\* within INIT_DELAY + 8 ticks, for every value of its size or NUSIZ field
\* and every change of it during the draw.
C39_ScanDeactivates ==
    (obj.kind \in { "ball", "missile" } /\ scan.armed /\ scan.t >= INIT_DELAY(obj.kind) + 8)
    => ScanInactive(obj)

\* the same for a size of at least 1 that is left alone during the draw
SteadyScanDeactivates ==
    (obj.kind \in { "ball", "missile" } /\ scan.armed /\ scan.steady /\ obj.nusiz >= 1
        /\ scan.t >= INIT_DELAY(obj.kind) + 8)
    => ScanInactive(obj)

\* C40: whenever a player's scan counter is armed or re-armed, also while a
\* copy is being drawn, the next draw starts at graphic bit index 0.
C40_RearmAtBit0 ==
    (obj.kind = "player" /\ obj.graphic_delay > 0)
    => (obj.graphic_bit_idx = 0 /\ obj.graphic_bit_copies_written = 0)

(***************************************************************************)
(* Motion claims.                                                          *)
(***************************************************************************)
\* C34: after a start_hmove, whatever the HM offset is changed to between
\* the apply_hmove calls, the counter receives at most 15 extra clocks
\* before apply_hmove returns (false, false), and apply_hmove then keeps
\* returning (false, false).
C34_HmoveBounded ==
    hm.started =>
        /\ prog = "running"
        /\ ctr.ticks_added <= 15
        /\ (ctr_last.op = "apply_hmove" /\ ~ctr_last.moved) => ~ctr.movement_required

\* the same with the HM offset left as it was at the start_hmove
HmoveBoundedConstant ==
    (hm.started /\ hm.constant) =>
        /\ prog = "running"
        /\ ctr.ticks_added <= 15
        /\ (ctr_last.op = "apply_hmove" /\ ~ctr_last.moved) => ~ctr.movement_required

\* C35: after an adc in decimal mode whose accumulator and operand are both
\* valid BCD bytes, register a is the BCD encoding of (a + m + c) mod 100 and
\* the carry flag is set exactly when a + m + c exceeds 99.
IsBcd(b) == b % 16 <= 9 /\ b \div 16 <= 9
BcdValue(b) == (b \div 16) * 10 + (b % 16)
BcdByte(n) == (n \div 10) * 16 + (n % 10)
DecimalAdc == alu.op = "adc" /\ alu.d0 /\ IsBcd(alu.a0) /\ IsBcd(alu.val)
DecimalSum == BcdValue(alu.a0) + BcdValue(alu.val) + B2N(alu.c0)

C35_DecimalAdc ==
    DecimalAdc => /\ alu.a = BcdByte(DecimalSum % 100)
                  /\ alu.c = (DecimalSum > 99)

\* what the code does keep: the accumulator is the BCD sum, and the carry
\* flag is the one the adc started with
DecimalAdcAccumulator ==
    DecimalAdc => alu.a = BcdByte(DecimalSum % 100) /\ alu.c = alu.c0

\* a decimal adc whose sum exceeds 99 and whose carry flag stayed clear
DecimalAdcLostCarry == DecimalAdc /\ DecimalSum > 99 /\ ~alu.c

\* C36: the cartridge ROM is read-only: whatever the CPU has written, every
\* ROM address still reads the byte of the cartridge image.
C36_RomReadOnly == \A k \in DOMAIN rom.patch : RomGet(rom, k) = RomImage(k)

\* what the code does: a write that selects the cartridge stores its byte
RomWriteStores ==
    (acc.op = "write" /\ acc.call.dev = "rom" /\ prog = "running")
        => RomGet(rom, acc.call.addr) = acc.val


\* C37: the RIOT's cycle countdown is never decremented from 0: no clock()
\* wraps it or stops the emulator on the subtraction.
C37_CountdownNoUnderflow == riot.cycle_count # USIZE_WRAPPED /\ prog # "panicked"

\* what the code does keep: once a TIMxT register has been written, the
\* countdown is at least 1 whenever clock() may be called
CountdownAfterTimerWrite == (tm.set /\ prog = "running") => riot.cycle_count >= 1


\* C38: every frame pass the loop begins is completed: from the start of a
\* pass the event poll is eventually reached, whatever the program writes.
C38_FrameTerminates == (fl.phase = "vsync") ~> (fl.phase = "events")

\* what the code does keep: a pass ends at a scanline boundary where the
\* TIA is in VSYNC
FrameEndsInVsync == fl.phase = "events" => TIA_in_vsync(tia)

\* a pass is completed when the program keeps turning both flags on and off
FrameTerminatesWhenSynced ==
    ([]<>TIA_in_vsync(tia) /\ []<>~TIA_in_vsync(tia)
        /\ []<>TIA_in_vblank(tia) /\ []<>~TIA_in_vblank(tia))
    => ((fl.phase = "vsync") ~> (fl.phase = "events"))

====
